---- MODULE Spec2Model ----
(***************************************************************************)
(* A model of toukei: the per-line lexers (src/src/syntax), the per-file   *)
(* Counter (src/src/counter.rs), the Report aggregator (src/src/report.rs, *)
(* src/src/stats.rs) and the sync and async pipelines (src/src/fc.rs).     *)
(*                                                                         *)
(* The specifications share the variables:                                 *)
(*   SpecStats  Report::add and LangStat::add over drawn FileStat lists    *)
(*   SpecLex    one lexer run, one physical line per step                  *)
(*   SpecTests  the lexers over the texts of the tests of lexer.rs         *)
(*   SpecFiles  two threads lexing files side by side                      *)
(*   SpecCount  Counter::count on one file                                 *)
(*   SpecWalk   FileReader::walk_dir over a directory tree                 *)
(*   SpecFfi    analyze_code of toukei_dll                                 *)
(*   SpecParse  ArgParser::build_matches on a command line                 *)
(*   SpecRead   the reads of Counter::count through LossyReader            *)
(*   Spec       FileCounter::process followed by AsyncFileCounter::process *)
(*              over the same directory tree; SpecTwice runs them twice    *)
(*   SpecAsync  AsyncFileCounter::process alone, under fair scheduling     *)
(*   SpecBuild  the construction of an AsyncFileCounter up to process      *)
(***************************************************************************)
EXTENDS Integers, Sequences, FiniteSets, TLC

VARIABLES
    \* ---- SpecStats
    input,        \* the list of FileStat handed to the aggregator
    processed,    \* indices of input already added
    whole,        \* Report accumulating the whole list
    part1,        \* Report accumulating the first subset of a partition
    part2,        \* Report accumulating the second subset
    merged,       \* per language: LangStat of part1 combined with part2
    statsPc       \* "adding" | "combined"

statsVars == <<input, processed, whole, part1, part2, merged, statsPc>>

VARIABLES
    \* ---- SpecLex
    lexer,        \* "Default" | "Python" | "Md": the strategy LexerFactory selected
    stat,         \* the FileStat being built
    ctx,          \* LexCtx
    fn_ctx,       \* FnCtx (DefaultLexer)
    py,           \* PyCtx (PythonLexer)
    lastLine,     \* the physical line processed last
    lastKind,     \* its classification: [kind, pos]
    lexPc,        \* "lexing" | "done"
    expected      \* what the extent and class policies credit the lines read so far

lexVars == <<lexer, stat, ctx, fn_ctx, py, lastLine, lastKind, lexPc, expected>>

VARIABLES
    \* ---- Spec: the tree, then FileCounter::process, then AsyncFileCounter::process
    tree,         \* per root of config.paths: the entries WalkDir yields beneath it
    num_workers,  \* the effective worker count
    pc,           \* "sync_walk" | "sync_map" | "sync_drain" | "async_start" | "async_run" | "done"
    all_files,    \* sync: the collected paths, in submission order
    results,      \* sync: per index [kind]: "pending", "running" or the map closure's result
    drained,      \* sync: how many results the drain loop has consumed
    sync_report,  \* sync: the Report the drain loop builds
    sync_result,  \* what FileCounter::process returned
    producers,    \* async: per root [pc, files]: the producer task and the paths it has left
    chan,         \* async: the bounded mpsc channel
    sent,         \* async: every path a producer's send accepted
    tasks,        \* async: the per-file tasks in spawn order: [path, pc, res]
    consumer,     \* async: "recv" | "join" | "done"
    permits,      \* async: free permits of the semaphore
    mutex,        \* async: index of the task holding the Report mutex, or 0
    report,       \* async: the shared Report
    async_result, \* what AsyncFileCounter::process returned
    run,          \* which run over the tree this is: 1, or 2 after a rerun
    first_run     \* what the first run returned, once a second has started

syncVars == <<all_files, results, drained, sync_report, sync_result>>

asyncVars == <<producers, chan, sent, tasks, consumer, permits, mutex, report, async_result>>

runVars == <<run, first_run>>

pipeVars == <<tree, num_workers, pc, syncVars, asyncVars, runVars>>

VARIABLES
    \* ---- SpecFiles
    scans         \* per scanner (a thread calling Lexer::lex): [lexer, pc, calls,
                  \* stat, ctx, fn_ctx, py, scanned, after_open]

scanVars == <<scans>>

VARIABLES
    \* ---- SpecCount, SpecWalk, SpecFfi: one call of one function each
    counting,     \* a call of Counter::count: [pc, path, file, lang_type, opened,
                  \* sniffed, lexed, result]
    walk,         \* a call of FileReader::walk_dir
    ffi,          \* a call of analyze_code
    scenario,     \* a call of Lexer::lex on the text of a test of lexer.rs:
                  \* [lexer, lines, start, at, pc, stat, ctx, fn_ctx, py]
    parse,        \* a call of ArgParser::parse
    reading       \* the reads of Counter::count on an opened file: [pc, content,
                  \* cap, offset, received]

callVars == <<counting, walk, ffi, scenario, parse, reading>>

\* The variables of the specifications other than the one an action belongs to.
offStats == <<lexVars, pipeVars, scanVars, callVars>>

offLex == <<statsVars, pipeVars, scanVars, callVars>>

offPipe == <<statsVars, lexVars, scanVars, callVars>>

offScan == <<statsVars, lexVars, pipeVars, callVars>>

offCount == <<statsVars, lexVars, pipeVars, scanVars, walk, ffi, scenario, parse, reading>>

offWalk == <<statsVars, lexVars, pipeVars, scanVars, counting, ffi, scenario, parse, reading>>

offFfi == <<statsVars, lexVars, pipeVars, scanVars, counting, walk, scenario, parse, reading>>

offScenario == <<statsVars, lexVars, pipeVars, scanVars, counting, walk, ffi, parse, reading>>

offParse == <<statsVars, lexVars, pipeVars, scanVars, counting, walk, ffi, scenario, reading>>

offRead == <<statsVars, lexVars, pipeVars, scanVars, counting, walk, ffi, scenario, parse>>

vars == <<statsVars, lexVars, pipeVars, scanVars, callVars>>

(***************************************************************************)
(* Generic helpers                                                         *)
(***************************************************************************)
Range(s) == {s[i] : i \in DOMAIN s}

SeqsUpTo(S, n) == UNION {[1..k -> S] : k \in 0..n}

(***************************************************************************)
(* stats.rs: FileStat and LangStat                                         *)
(***************************************************************************)
\* A FileStat that starts with one line counted.
FileStatOneLine ==
    [lang |-> "Unknown", path |-> "", name |-> "",
     lines |-> 1, code |-> 0, comments |-> 0, blanks |-> 0,
     functions |-> 0, classes |-> 0]

\* FileStat::default() with the lang field the Report reads (stat.lang).
FileStatDefault ==
    [lang |-> "Unknown", path |-> "", name |-> "",
     lines |-> 0, code |-> 0, comments |-> 0, blanks |-> 0,
     functions |-> 0, classes |-> 0]

LangStatNew(lang) ==
    [lang |-> lang, files |-> 0, lines |-> 0, code |-> 0, comments |-> 0,
     blanks |-> 0, functions |-> 0, classes |-> 0, stats |-> <<>>]

\* LangStat::add(&mut self, other): every counter but classes is summed.
LangStatAdd(self, other) ==
    [self EXCEPT !.files = @ + other.files,
                 !.lines = @ + other.lines,
                 !.code = @ + other.code,
                 !.comments = @ + other.comments,
                 !.blanks = @ + other.blanks,
                 !.functions = @ + other.functions,
                 !.stats = @ \o other.stats]

(***************************************************************************)
(* report.rs: Report                                                       *)
(***************************************************************************)
\* Report::new(): an empty map.
ReportNew == [l \in {} |-> LangStatNew(l)]

\* A Report::add that pushes the file and sums its counters but leaves files.
LangStatPushNoFiles(ls, fstat) ==
    [ls EXCEPT !.lines = @ + fstat.lines,
               !.code = @ + fstat.code,
               !.comments = @ + fstat.comments,
               !.blanks = @ + fstat.blanks,
               !.functions = @ + fstat.functions,
               !.classes = @ + fstat.classes,
               !.stats = Append(@, fstat)]

\* The body of Report::add on the entry of the fstat's language.
LangStatPush(ls, fstat) ==
    [ls EXCEPT !.files = @ + 1,
               !.lines = @ + fstat.lines,
               !.code = @ + fstat.code,
               !.comments = @ + fstat.comments,
               !.blanks = @ + fstat.blanks,
               !.functions = @ + fstat.functions,
               !.classes = @ + fstat.classes,
               !.stats = Append(@, fstat)]

\* A Report::add that stores the last file's line count instead of summing.
ReportAddOverwrite(rep, fstat) ==
    LET old == IF fstat.lang \in DOMAIN rep THEN rep[fstat.lang]
               ELSE LangStatNew(fstat.lang)
        new == [LangStatPush(old, fstat) EXCEPT !.lines = fstat.lines]
    IN [l \in DOMAIN rep \cup {fstat.lang} |->
            IF l = fstat.lang THEN new ELSE rep[l]]

\* Report::add: entry(lang).or_insert_with(LangStat::new), then the sums.
ReportAdd(rep, fstat) ==
    LET old == IF fstat.lang \in DOMAIN rep THEN rep[fstat.lang]
               ELSE LangStatNew(fstat.lang)
    IN [l \in DOMAIN rep \cup {fstat.lang} |->
            IF l = fstat.lang THEN LangStatPush(old, fstat) ELSE rep[l]]

\* Report::get_by_lang, with LangStat::new for a language not yet present.
GetOrNew(rep, lang) ==
    IF lang \in DOMAIN rep THEN rep[lang] ELSE LangStatNew(lang)

\* The aggregate fields of a LangStat (the per-file list left out).
TotalsOf(ls) ==
    [files |-> ls.files, lines |-> ls.lines, code |-> ls.code,
     comments |-> ls.comments, blanks |-> ls.blanks,
     functions |-> ls.functions, classes |-> ls.classes]

Totals(rep) == [l \in DOMAIN rep |-> TotalsOf(rep[l])]


(***************************************************************************)
(* Text: a line is a sequence of one-character strings; positions are the  *)
(* 0-based byte offsets of the source (the model's characters are ASCII).  *)
(***************************************************************************)
\* Option::None of an optional text or position (no text of the model is empty).
None == <<>>

\* Option::None of an optional name (a language, a strategy, a pattern set).
NoName == "None"

\* No NUL byte in a file.
NoNul == -1

NotFound == -1

\* char::is_whitespace over the characters the model uses.
Ws == {" ", "\t"}

\* &s[a..b]
Slice(s, a, b) == SubSeq(s, a + 1, b)

\* &s[a..]
SliceFrom(s, a) == SubSeq(s, a + 1, Len(s))

\* str::trim: leading and trailing whitespace removed.
Trim(s) ==
    IF \A i \in DOMAIN s : s[i] \in Ws THEN <<>>
    ELSE LET a == CHOOSE i \in DOMAIN s :
                     s[i] \notin Ws /\ \A k \in 1..(i - 1) : s[k] \in Ws
             b == CHOOSE i \in DOMAIN s :
                     s[i] \notin Ws /\ \A k \in (i + 1)..Len(s) : s[k] \in Ws
         IN SubSeq(s, a, b)

\* Whether pat occurs in s at 0-based offset p.
OccursAt(s, pat, p) ==
    /\ p + Len(pat) <= Len(s)
    /\ \A k \in 1..Len(pat) : s[p + k] = pat[k]

\* str::find: the offset of the first occurrence, or NotFound.
Find(s, pat) ==
    IF \E p \in 0..Len(s) : OccursAt(s, pat, p)
    THEN CHOOSE p \in 0..Len(s) :
            OccursAt(s, pat, p) /\ \A q \in 0..(p - 1) : ~OccursAt(s, pat, q)
    ELSE NotFound

Contains(s, pat) == Find(s, pat) # NotFound

StartsWith(s, pat) == OccursAt(s, pat, 0)

(***************************************************************************)
(* langs/registry.rs: the language definitions the lexers read             *)
(***************************************************************************)
\* C_DEF
C_DEF ==
    [name |-> "C", line_comment |-> <<"/", "/">>,
     block_comment |-> << <<"/", "*">>, <<"*", "/">> >>,
     function_patterns |-> "C", class_pattern |-> NoName]

\* PY_DEF
PY_DEF ==
    [name |-> "Python", line_comment |-> <<"#">>,
     block_comment |-> << <<"\"", "\"", "\"">>, <<"\"", "\"", "\"">> >>,
     function_patterns |-> "Python", class_pattern |-> "Python"]

\* [a-zA-Z0-9_]
WordChars ==
  { "a", "b", "c", "d", "e", "f", "g", "h", "i", "j", "k", "l", "m", "n",
    "o", "p", "q", "r", "s", "t", "u", "v", "w", "x", "y", "z", "A", "B",
    "C", "D", "E", "F", "G", "H", "I", "J", "K", "L", "M", "N", "O", "P",
    "Q", "R", "S", "T", "U", "V", "W", "X", "Y", "Z", "0", "1", "2", "3",
    "4", "5", "6", "7", "8", "9", "_" }

\* [a-zA-Z0-9_\*&\[\]]
TypeChars == WordChars \cup {"*", "&", "[", "]"}

\* The first position >= i (1-based) whose character is not in class.
SkipWhile(s, i, class) ==
    CHOOSE j \in i..(Len(s) + 1) :
        /\ \A k \in i..(j - 1) : s[k] \in class
        /\ j = Len(s) + 1 \/ s[j] \notin class

\* The first position >= i (1-based) whose character is c, or Len(s) + 1.
SkipNot(s, i, c) ==
    CHOOSE j \in i..(Len(s) + 1) :
        /\ \A k \in i..(j - 1) : s[k] # c
        /\ j = Len(s) + 1 \/ s[j] = c

\* From position i: \s*\([^)]*\)\s* followed by the character last.
ParamsThen(s, i, last) ==
    LET e == SkipWhile(s, i, Ws)
    IN /\ e <= Len(s)
       /\ s[e] = "("
       /\ LET f == SkipNot(s, e + 1, ")")
          IN /\ f <= Len(s)
             /\ LET g == SkipWhile(s, f + 1, Ws)
                IN g <= Len(s) /\ s[g] = last

\* C_DEF.function_patterns[0]:
\*   ^\s*[a-zA-Z0-9_\*&\[\]]+\s+[a-zA-Z0-9_]+\s*\([^)]*\)\s*\{
\* (function_patterns[1], the same with "void" as the type, matches a subset).
MatchC(s) ==
    LET a == SkipWhile(s, 1, Ws)
        b == SkipWhile(s, a, TypeChars)
        c == SkipWhile(s, b, Ws)
        d == SkipWhile(s, c, WordChars)
    IN b > a /\ c > b /\ d > c /\ ParamsThen(s, d, "{")

\* From position i: def\s+[a-zA-Z0-9_]+\s*\([^)]*\)\s*:
DefFrom(s, i) ==
    /\ OccursAt(s, <<"d", "e", "f">>, i - 1)
    /\ LET b == i + 3
           c == SkipWhile(s, b, Ws)
           d == SkipWhile(s, c, WordChars)
       IN c > b /\ d > c /\ ParamsThen(s, d, ":")

\* PY_DEF.function_patterns: ^\s*def\s+... and ^\s*async\s+def\s+...
MatchPython(s) ==
    LET a == SkipWhile(s, 1, Ws)
    IN \/ DefFrom(s, a)
       \/ /\ OccursAt(s, <<"a", "s", "y", "n", "c">>, a - 1)
          /\ LET b == SkipWhile(s, a + 5, Ws)
             IN b > a + 5 /\ DefFrom(s, b)

\* PY_DEF.class_pattern: ^\s*class\s+[a-zA-Z0-9_]+
MatchPythonClass(s) ==
    LET a == SkipWhile(s, 1, Ws)
        b == SkipWhile(s, a + 5, Ws)
    IN /\ OccursAt(s, <<"c", "l", "a", "s", "s">>, a - 1)
       /\ b > a + 5
       /\ SkipWhile(s, b, WordChars) > b

\* Regex::is_match of the definition's class pattern.
IsClassMatch(def, code) ==
    CASE def.class_pattern = "Python" -> MatchPythonClass(code)
      [] OTHER -> FALSE

\* RegexSet::is_match over the definition's function patterns.
IsMatch(def, code) ==
    CASE def.function_patterns = "C" -> MatchC(code)
      [] def.function_patterns = "Python" -> MatchPython(code)
      [] OTHER -> FALSE

(***************************************************************************)
(* syntax/lex_status.rs                                                    *)
(***************************************************************************)
LexCtxDefault == [in_block_comment |-> FALSE, in_string |-> FALSE]

FnCtxDefault == [in_function |-> FALSE, prev |-> 0, depth |-> 0]

PyCtxDefault == [in_fn |-> FALSE, fn_def_line |-> FALSE, base_indent |-> 0, cur_indent |-> 0]

(***************************************************************************)
(* syntax/classifier.rs                                                    *)
(***************************************************************************)
Classified(kind, pos, c) == [kind |-> kind, pos |-> pos, ctx |-> c]

\* DefaultClassifier::classify outside a block comment, never entering one.
DefaultClassifyNeverOpens(s, c, def) ==
    IF def.line_comment # None /\ StartsWith(s, def.line_comment)
    THEN Classified("Comment", None, c)
    ELSE IF def.block_comment # None /\ Contains(s, def.block_comment[1])
    THEN Classified("Comment", None, c)
    ELSE Classified("Code", None, c)

\* DefaultClassifier::classify outside a block comment (the trimmed line s).
DefaultClassifyOutside(s, c, def) ==
    IF def.line_comment # None /\ StartsWith(s, def.line_comment)
    THEN Classified("Comment", None, c)
    ELSE IF def.block_comment # None /\ Contains(s, def.block_comment[1])
    THEN LET start == def.block_comment[1]
             end == def.block_comment[2]
             pos == Find(s, start)
             after == SliceFrom(s, pos + Len(start))
             end_pos == Find(after, end)
         IN IF end_pos # NotFound
            THEN IF end_pos + Len(end) = Len(after) /\ pos = 0
                 THEN Classified("Comment", None, c)
                 ELSE Classified("Mixed", <<pos + Len(end), Len(s)>>, c)
            ELSE IF Trim(Slice(s, 0, pos)) = <<>>
                 THEN Classified("Comment", None, [c EXCEPT !.in_block_comment = TRUE])
                 ELSE Classified("Mixed", <<0, pos>>, [c EXCEPT !.in_block_comment = TRUE])
    ELSE Classified("Code", None, c)

\* DefaultClassifier::classify as if in_block_comment were never set.
DefaultClassifyStateless(raw, c, def) ==
    IF Trim(raw) = <<>> THEN Classified("Blank", None, c)
    ELSE DefaultClassifyOutside(Trim(raw), c, def)

\* DefaultClassifier::classify with the blank test behind the block-comment
\* test.
DefaultClassifyBlankLate(raw, c, def) ==
    IF c.in_block_comment THEN Classified("Comment", None, c)
    ELSE DefaultClassifyStateless(raw, c, def)

\* DefaultClassifier::classify
DefaultClassify(raw, c, def) ==
    LET s == Trim(raw)
    IN IF s = <<>> THEN Classified("Blank", None, c)
       ELSE IF c.in_block_comment /\ def.block_comment # None
       THEN LET end == def.block_comment[2]
                pos == Find(s, end)
            IN IF pos # NotFound
               THEN IF pos + Len(end) = Len(s)
                    THEN Classified("Comment", None, [c EXCEPT !.in_block_comment = FALSE])
                    ELSE Classified("Mixed", <<pos + Len(end), Len(s)>>,
                                    [c EXCEPT !.in_block_comment = FALSE])
               ELSE Classified("Comment", None, c)
       ELSE DefaultClassifyOutside(s, c, def)

DQ3 == <<"\"", "\"", "\"">>

SQ3 == <<"'", "'", "'">>

\* PythonClassifier::classify as if a docstring were never entered.
PythonClassifyNoDocstring(raw, c, def) ==
    IF Trim(raw) = <<>> THEN Classified("Blank", None, c)
    ELSE IF StartsWith(Trim(raw), DQ3) \/ StartsWith(Trim(raw), SQ3)
            \/ StartsWith(Trim(raw), <<"#">>)
    THEN Classified("Comment", None, c)
    ELSE IF Contains(Trim(raw), <<"#">>)
    THEN Classified("Mixed", <<0, Find(Trim(raw), <<"#">>)>>, c)
    ELSE Classified("Code", None, c)

\* PythonClassifier::classify
PythonClassify(raw, c, def) ==
    LET s == Trim(raw)
    IN IF s = <<>> THEN Classified("Blank", None, c)
       ELSE IF c.in_string
       THEN IF Contains(s, DQ3) \/ Contains(s, SQ3)
            THEN LET c2 == [c EXCEPT !.in_string = FALSE]
                 IN IF s = DQ3 \/ s = SQ3
                    THEN Classified("Comment", None, c2)
                    ELSE LET end_pos == IF Contains(s, DQ3) THEN Find(s, DQ3)
                                        ELSE Find(s, SQ3)
                         IN IF Trim(SliceFrom(s, end_pos + 3)) # <<>>
                            THEN Classified("Mixed", <<end_pos + 3, Len(s)>>, c2)
                            ELSE Classified("Comment", None, c2)
            ELSE Classified("Comment", None, c)
       ELSE IF StartsWith(s, DQ3) \/ StartsWith(s, SQ3)
       THEN LET doc_start == IF StartsWith(s, DQ3) THEN DQ3 ELSE SQ3
            IN IF Len(s) > 3 /\ Contains(Trim(SliceFrom(s, 3)), doc_start)
               THEN Classified("Comment", None, c)
               ELSE IF Trim(SliceFrom(s, 3)) # <<>>
                    THEN Classified("Mixed", <<3, Len(s)>>, [c EXCEPT !.in_string = TRUE])
                    ELSE Classified("Comment", None, [c EXCEPT !.in_string = TRUE])
       ELSE IF def.line_comment # None /\ StartsWith(s, def.line_comment)
       THEN Classified("Comment", None, c)
       ELSE IF Contains(s, <<"#">>)
       THEN LET comment_pos == Find(s, <<"#">>)
            IN IF Trim(Slice(s, 0, comment_pos)) # <<>>
               THEN Classified("Mixed", <<0, comment_pos>>, c)
               ELSE Classified("Comment", None, c)
       ELSE Classified("Code", None, c)

(***************************************************************************)
(* The values the variables of a specification not running keep            *)
(***************************************************************************)
NoResult == [kind |-> "none"]

LexIdle ==
    /\ lexer = "none"
    /\ stat = FileStatDefault
    /\ ctx = LexCtxDefault
    /\ fn_ctx = FnCtxDefault
    /\ py = PyCtxDefault
    /\ lastLine = <<>>
    /\ lastKind = [kind |-> "none", pos |-> None]
    /\ lexPc = "idle"
    /\ expected = NoResult

PipeIdle ==
    /\ tree = <<>>
    /\ num_workers = 0
    /\ pc = "idle"
    /\ all_files = <<>>
    /\ results = <<>>
    /\ drained = 0
    /\ sync_report = ReportNew
    /\ sync_result = NoResult
    /\ producers = <<>>
    /\ chan = <<>>
    /\ sent = {}
    /\ tasks = <<>>
    /\ consumer = "idle"
    /\ permits = 0
    /\ mutex = 0
    /\ report = ReportNew
    /\ async_result = NoResult
    /\ run = 0
    /\ first_run = NoResult

ScanIdle == scans = <<>>

NoCall == [pc |-> "idle"]

CountIdle == counting = NoCall

WalkIdle == walk = NoCall

FfiIdle == ffi = NoCall

ScenarioIdle == scenario = NoCall

ParseIdle == parse = NoCall

ReadIdle == reading = NoCall

CallsIdle == CountIdle /\ WalkIdle /\ FfiIdle /\ ScenarioIdle /\ ParseIdle /\ ReadIdle

StatsIdle ==
    /\ input = <<>>
    /\ processed = {}
    /\ whole = ReportNew
    /\ part1 = ReportNew
    /\ part2 = ReportNew
    /\ merged = ReportNew
    /\ statsPc = "idle"

(***************************************************************************)
(* syntax/lexer.rs                                                         *)
(***************************************************************************)
\* The loop of update_fn_ctx over raw.chars(): '{' adds one, '}' subtracts
\* one (isize::saturating_sub saturates at isize::MIN only).
RECURSIVE ScanBraces(_, _)
ScanBraces(raw, depth) ==
    IF raw = <<>> THEN depth
    ELSE ScanBraces(Tail(raw),
                    IF Head(raw) = "{" THEN depth + 1
                    ELSE IF Head(raw) = "}" THEN depth - 1
                    ELSE depth)

\* update_fn_ctx after its `if !ctx.in_function` block: the scan of the braces.
ScanInto(raw, entered) ==
    [entered EXCEPT !.depth = ScanBraces(raw, entered.depth),
                    !.prev = ScanBraces(raw, entered.depth)]

\* DefaultLexer::update_fn_ctx
UpdateFnCtx(raw, def, f) ==
    ScanInto(raw, IF ~f.in_function /\ IsMatch(def, raw)
                  THEN [f EXCEPT !.in_function = TRUE, !.depth = 0]
                  ELSE f)

\* The counters of a classified line: lines, and one of blanks, comments, code.
CountLine(st, kind) ==
    CASE kind = "Blank" -> [st EXCEPT !.lines = @ + 1, !.blanks = @ + 1]
      [] kind \in {"Comment", "DocComment"} -> [st EXCEPT !.lines = @ + 1, !.comments = @ + 1]
      [] OTHER -> [st EXCEPT !.lines = @ + 1, !.code = @ + 1]

\* The end of an iteration of DefaultLexer::lex: `if fn_ctx.in_function`.
DefaultLexCredit(st, cl, f2) ==
    [stat |-> IF f2.in_function THEN [st EXCEPT !.functions = @ + 1] ELSE st,
     ctx |-> cl.ctx, fn_ctx |-> f2, kind |-> cl.kind, pos |-> cl.pos]

\* The match on the line's kind, cl being the classifier's answer and f1 the
\* FnCtx after the exit check at the top of the iteration.
DefaultLexMatch(trimmed, cl, st, f1, def) ==
    DefaultLexCredit(
        CountLine(st, cl.kind), cl,
        CASE cl.kind = "Code" /\ def.function_patterns # NoName ->
                UpdateFnCtx(trimmed, def, f1)
          [] cl.kind = "Mixed" /\ cl.pos # None /\ def.function_patterns # NoName ->
                UpdateFnCtx(Slice(trimmed, cl.pos[1], cl.pos[2]), def, f1)
          [] OTHER -> f1)

\* An iteration that never leaves function mode at the top of the line.
DefaultLexLineNoExit(raw, st, c, f, def) ==
    DefaultLexMatch(Trim(raw), DefaultClassify(raw, c, def), st, f, def)

\* One iteration of the loop of DefaultLexer::lex over the line raw.
DefaultLexLine(raw, st, c, f, def) ==
    DefaultLexMatch(
        Trim(raw), DefaultClassify(raw, c, def), st,
        IF f.in_function /\ f.prev = 0 THEN [f EXCEPT !.in_function = FALSE] ELSE f,
        def)

CalcIndentTabAsOne(raw) == SkipWhile(raw, 1, Ws) - 1

\* calc_indent: leading whitespace, a tab counting 4 and anything else 1.
CalcIndent(raw) ==
    LET n == SkipWhile(raw, 1, Ws) - 1
        tabs == Cardinality({i \in 1..n : raw[i] = "\t"})
    IN 4 * tabs + (n - tabs)

\* Part 2 of an iteration of PythonLexer::lex: indentation and the body's extent
\* (skipped for a blank line or a line starting with '#').
PythonLexIndent(raw, trimmed, st2, cl, p2) ==
    IF trimmed = <<>> \/ StartsWith(trimmed, <<"#">>)
    THEN [stat |-> st2, ctx |-> cl.ctx, py |-> p2, kind |-> cl.kind, pos |-> cl.pos]
    ELSE LET in_fn == p2.in_fn /\ ~(CalcIndent(raw) <= p2.base_indent)
         IN [stat |-> IF in_fn THEN [st2 EXCEPT !.functions = @ + 1] ELSE st2,
             ctx |-> cl.ctx,
             py |-> [p2 EXCEPT !.cur_indent = CalcIndent(raw), !.in_fn = in_fn],
             kind |-> cl.kind, pos |-> cl.pos]

\* Part 1, the match on the line's kind; isDef: the code slice matches a
\* function pattern.
PythonLexMatch(raw, trimmed, cl, st, p1, isDef) ==
    PythonLexIndent(
        raw, trimmed,
        IF isDef THEN [CountLine(st, cl.kind) EXCEPT !.functions = @ + 1]
        ELSE CountLine(st, cl.kind),
        cl,
        IF isDef THEN [p1 EXCEPT !.fn_def_line = TRUE] ELSE p1)

\* The code slice of a Code or Mixed line matches a function pattern.
PythonIsDef(trimmed, cl, def) ==
    /\ cl.kind \in {"Code", "Mixed"}
    /\ def.function_patterns # NoName
    /\ IsMatch(def, IF cl.kind = "Mixed" THEN Slice(trimmed, cl.pos[1], cl.pos[2])
                    ELSE trimmed)

PythonLexClassified(raw, trimmed, cl, st, p1, def) ==
    PythonLexMatch(raw, trimmed, cl, st, p1, PythonIsDef(trimmed, cl, def))

\* An iteration without part 0: a pending fn_def_line is never taken up.
PythonLexLineNoEntry(raw, st, c, p, def) ==
    PythonLexClassified(raw, Trim(raw), PythonClassify(raw, c, def), st, p, def)

\* One iteration of the loop of PythonLexer::lex over the line raw; part 0
\* turns a pending fn_def_line into in_fn with base_indent = cur_indent.
PythonLexLine(raw, st, c, p, def) ==
    PythonLexClassified(
        raw, Trim(raw), PythonClassify(raw, c, def), st,
        IF p.fn_def_line
        THEN [p EXCEPT !.fn_def_line = FALSE, !.in_fn = TRUE, !.base_indent = p.cur_indent]
        ELSE p,
        def)

\* MdLexer::lex counts reader.lines(): one more line, nothing classified.
MdLexLine(raw, st) == [st EXCEPT !.lines = @ + 1]

(***************************************************************************)
(* syntax/mod.rs and counter.rs: the per-file Counter                      *)
(***************************************************************************)
\* get_type_from_ext over the extensions of C_DEF, PY_DEF and MARKDOWN_DEF.
TypeFromExt(ext) ==
    CASE ext = "c" -> "C"
      [] ext = "py" -> "Python"
      [] ext = "md" -> "Markdown"
      [] OTHER -> NoName

\* LexerFactory::get_lexer
GetLexer(lang_type) ==
    CASE lang_type = "Python" -> "Python"
      [] lang_type = "Markdown" -> "Md"
      [] lang_type = "Unknown" -> NoName
      [] OTHER -> "Default"

\* get_lang_def over the definitions above.
GetLangDef(lang_type) ==
    CASE lang_type = "C" -> C_DEF
      [] lang_type = "Python" -> PY_DEF
      [] OTHER -> [name |-> NoName]

\* DefaultLexer::lex over a whole file: the loop from fresh contexts.
RECURSIVE DefaultLexLoop(_, _, _, _, _)
DefaultLexRest(rest, r, def) == DefaultLexLoop(rest, r.stat, r.ctx, r.fn_ctx, def)

DefaultLexLoop(lines, st, c, f, def) ==
    IF lines = <<>> THEN st
    ELSE DefaultLexRest(Tail(lines), DefaultLexLine(Head(lines), st, c, f, def), def)

\* PythonLexer::lex over a whole file.
RECURSIVE PythonLexLoop(_, _, _, _, _)
PythonLexRest(rest, r, def) == PythonLexLoop(rest, r.stat, r.ctx, r.py, def)

PythonLexLoop(lines, st, c, p, def) ==
    IF lines = <<>> THEN st
    ELSE PythonLexRest(Tail(lines), PythonLexLine(Head(lines), st, c, p, def), def)

\* DefaultLexer::lex: Err when the language has no definition.
DefaultLex(def, lines) ==
    IF def.name = NoName THEN [ok |-> FALSE]
    ELSE [ok |-> TRUE,
          stat |-> DefaultLexLoop(lines, FileStatDefault, LexCtxDefault, FnCtxDefault, def)]

\* Lexer::lex of the selected strategy: Ok(FileStat) or Err.
Lex(strategy, lang_type, lines) ==
    CASE strategy = "Python" ->
            [ok |-> TRUE,
             stat |-> PythonLexLoop(lines, FileStatDefault, LexCtxDefault, PyCtxDefault, PY_DEF)]
      [] strategy = "Md" ->
            [ok |-> TRUE, stat |-> [FileStatDefault EXCEPT !.lines = Len(lines)]]
      [] OTHER -> DefaultLex(GetLangDef(lang_type), lines)

\* The size of the buffer is_binary_file reads.
SniffLen == 1024

Min(a, b) == IF a <= b THEN a ELSE b

\* A sniff that looks at the file's first byte only.
IsBinaryFileFirstByte(file) == file.size # 0 /\ file.nul # NoNul /\ file.nul < 1

\* Counter::is_binary_file: a NUL byte among the first min(1024, size) bytes.
\* file.nul is the offset of the file's first NUL byte, or NoNul.
IsBinaryFile(file) ==
    LET n == Min(SniffLen, file.size)
    IN n # 0 /\ file.nul # NoNul /\ file.nul < n

CounterError(kind) == [ok |-> FALSE, err |-> kind]

\* The end of Counter::count: the lexer's Err as LexError, or the FileStat
\* stamped with language, path and file name.
Stamp(r, lang_type, path) ==
    IF ~r.ok THEN CounterError("LexError")
    ELSE [ok |-> TRUE,
          stat |-> [r.stat EXCEPT !.lang = lang_type, !.path = path, !.name = path[2]]]

\* Counter::count once the extension has resolved to lang_type.
CountAs(path, file, lang_type) ==
    IF lang_type = NoName THEN CounterError("LexError")
    ELSE IF ~file.openable THEN CounterError("IoError")
    ELSE IF IsBinaryFile(file) THEN CounterError("BinaryFile")
    ELSE IF GetLexer(lang_type) = NoName THEN CounterError("LexError")
    ELSE Stamp(Lex(GetLexer(lang_type), lang_type, file.content), lang_type, path)

\* Counter::count on the file at path (<<root, name>>) with the attributes file.
Count(path, file) == CountAs(path, file, TypeFromExt(file.ext))

(***************************************************************************)
(* SpecTests: Lexer::lex over the texts of the tests of lexer.rs, begun at *)
(* any of their lines, a physical line per step                            *)
(***************************************************************************)
\* A byte of a character that is not ASCII.
Hi == "<hi>"

\* The text of count_simple_c_like.
CLikeText ==
    <<
      <<>>,
      <<"/", "/", " ", Hi, Hi, Hi, Hi, Hi, Hi, Hi, Hi, Hi, Hi, Hi, Hi>>,
      <<"#", "i", "n", "c", "l", "u", "d", "e", " ", "<", "s", "t", "d", "i",
        "o", ".", "h", ">">>,
      <<>>,
      <<"/", "*", " ", Hi, Hi, Hi, Hi, Hi, Hi, Hi, Hi, Hi>>,
      <<" ", " ", " ", Hi, Hi, Hi, Hi, Hi, Hi, Hi, Hi, Hi>>,
      <<"*", "/">>,
      <<"i", "n", "t", " ", "a", "d", "d", "(", "i", "n", "t", " ", "a", ",",
        " ", "i", "n", "t", " ", "b", ")", " ", "{", "}", " ", "/", "/", " ",
        Hi, Hi, Hi, Hi, Hi, Hi, Hi, Hi, Hi, Hi, Hi, Hi>>,
      <<>>,
      <<"i", "n", "t", " ", "m", "a", "i", "n", "(", ")", " ", "{">>,
      <<" ", " ", " ", " ", "p", "r", "i", "n", "t", "f", "(", "\"", "h",
        "e", "l", "l", "o", "\\", "n", "\"", ")", ";", " ", " ", "/", "/",
        " ", Hi, Hi, Hi, Hi, Hi, Hi, Hi, Hi, Hi>>,
      <<" ", " ", " ", " ", "r", "e", "t", "u", "r", "n", " ", "0", ";">>,
      <<"}">>
    >>

\* The text of count_simple_python.
PythonText ==
    <<
      <<"#", "!", "/", "u", "s", "r", "/", "b", "i", "n", "/", "e", "n", "v",
        " ", "p", "y", "t", "h", "o", "n", "3">>,
      <<"#", " ", "T", "h", "i", "s", " ", "i", "s", " ", "a", " ", "P", "y",
        "t", "h", "o", "n", " ", "s", "c", "r", "i", "p", "t", " ", "e", "x",
        "a", "m", "p", "l", "e">>,
      <<>>,
      <<"i", "m", "p", "o", "r", "t", " ", "s", "y", "s">>,
      <<"i", "m", "p", "o", "r", "t", " ", "o", "s">>,
      <<>>,
      <<"d", "e", "f", " ", "h", "e", "l", "l", "o", "_", "w", "o", "r", "l",
        "d", "(", ")", ":">>,
      <<" ", " ", " ", " ", "\"", "\"", "\"", "P", "r", "i", "n", "t", " ",
        "h", "e", "l", "l", "o", " ", "w", "o", "r", "l", "d", " ", "m", "e",
        "s", "s", "a", "g", "e", ".", "\"", "\"", "\"">>,
      <<" ", " ", " ", " ", "p", "r", "i", "n", "t", "(", "\"", "H", "e",
        "l", "l", "o", ",", " ", "W", "o", "r", "l", "d", "!", "\"", ")",
        " ", " ", "#", " ", "T", "h", "i", "s", " ", "p", "r", "i", "n", "t",
        "s", " ", "a", " ", "m", "e", "s", "s", "a", "g", "e">>,
      <<>>,
      <<"c", "l", "a", "s", "s", " ", "M", "y", "C", "l", "a", "s", "s", ":">>,
      <<" ", " ", " ", " ", "\"", "\"", "\"", "A", " ", "s", "i", "m", "p",
        "l", "e", " ", "c", "l", "a", "s", "s", ".", "\"", "\"", "\"">>,
      <<>>,
      <<" ", " ", " ", " ", "d", "e", "f", " ", "_", "_", "i", "n", "i", "t",
        "_", "_", "(", "s", "e", "l", "f", ",", " ", "n", "a", "m", "e", ")",
        ":">>,
      <<" ", " ", " ", " ", " ", " ", " ", " ", "s", "e", "l", "f", ".", "n",
        "a", "m", "e", " ", "=", " ", "n", "a", "m", "e">>,
      <<>>,
      <<" ", " ", " ", " ", "d", "e", "f", " ", "g", "r", "e", "e", "t", "(",
        "s", "e", "l", "f", ")", ":">>,
      <<" ", " ", " ", " ", " ", " ", " ", " ", "r", "e", "t", "u", "r", "n",
        " ", "f", "\"", "H", "e", "l", "l", "o", ",", " ", "{", "s", "e",
        "l", "f", ".", "n", "a", "m", "e", "}", "!", "\"">>,
      <<>>,
      <<"a", "s", "y", "n", "c", " ", "d", "e", "f", " ", "a", "s", "y", "n",
        "c", "_", "f", "u", "n", "c", "t", "i", "o", "n", "(", ")", ":">>,
      <<>>,
      <<" ", " ", " ", " ", "a", "w", "a", "i", "t", " ", "s", "o", "m", "e",
        "_", "a", "s", "y", "n", "c", "_", "c", "a", "l", "l", "(", ")">>,
      <<>>,
      <<" ", " ", " ", " ", "p", "r", "i", "n", "t", "(", "\"", "D", "o",
        "n", "e", "\"", ")">>,
      <<>>,
      <<"i", "f", " ", "_", "_", "n", "a", "m", "e", "_", "_", " ", "=", "=",
        " ", "\"", "_", "_", "m", "a", "i", "n", "_", "_", "\"", ":">>,
      <<" ", " ", " ", " ", "h", "e", "l", "l", "o", "_", "w", "o", "r", "l",
        "d", "(", ")">>,
      <<" ", " ", " ", " ", "o", "b", "j", " ", "=", " ", "M", "y", "C", "l",
        "a", "s", "s", "(", "\"", "A", "l", "i", "c", "e", "\"", ")">>,
      <<" ", " ", " ", " ", "p", "r", "i", "n", "t", "(", "o", "b", "j", ".",
        "g", "r", "e", "e", "t", "(", ")", ")">>
    >>

\* The texts lexed, per strategy; MdLexer has no test, its text is two lines.
TestText(strategy) ==
    CASE strategy = "Default" -> CLikeText
      [] strategy = "Python" -> PythonText
      [] OTHER -> << <<"#", " ", "x">>, <<"x">> >>

\* lex is entered: the locals are created from default().
TestInit ==
    /\ \E l \in {"Default", "Python", "Md"} :
          scenario \in
              { [lexer |-> l, lines |-> TestText(l), start |-> k, at |-> k,
                 pc |-> "lexing", stat |-> FileStatDefault, ctx |-> LexCtxDefault,
                 fn_ctx |-> FnCtxDefault, py |-> PyCtxDefault] :
                k \in 1..(Len(TestText(l)) + 1) }
    /\ CountIdle
    /\ WalkIdle
    /\ FfiIdle
    /\ ParseIdle
    /\ ReadIdle
    /\ StatsIdle
    /\ LexIdle
    /\ PipeIdle
    /\ ScanIdle

\* The state of the scenario after an iteration with result r.
TestRead(r) ==
    scenario' = [scenario EXCEPT !.at = @ + 1, !.stat = r.stat, !.ctx = r.ctx,
                                 !.fn_ctx = r.fn_ctx, !.py = r.py]

\* An iteration of DefaultLexer::lex.
TestDefaultLine ==
    /\ scenario.pc = "lexing"
    /\ scenario.lexer = "Default"
    /\ scenario.at <= Len(scenario.lines)
    /\ TestRead([py |-> scenario.py] @@
                DefaultLexLine(scenario.lines[scenario.at], scenario.stat, scenario.ctx,
                               scenario.fn_ctx, C_DEF))
    /\ UNCHANGED offScenario

\* An iteration of PythonLexer::lex.
TestPythonLine ==
    /\ scenario.pc = "lexing"
    /\ scenario.lexer = "Python"
    /\ scenario.at <= Len(scenario.lines)
    /\ TestRead([fn_ctx |-> scenario.fn_ctx] @@
                PythonLexLine(scenario.lines[scenario.at], scenario.stat, scenario.ctx,
                              scenario.py, PY_DEF))
    /\ UNCHANGED offScenario

\* MdLexer::lex counts one more line.
TestMdLine ==
    /\ scenario.pc = "lexing"
    /\ scenario.lexer = "Md"
    /\ scenario.at <= Len(scenario.lines)
    /\ scenario' = [scenario EXCEPT
            !.at = @ + 1, !.stat = MdLexLine(scenario.lines[scenario.at], scenario.stat)]
    /\ UNCHANGED offScenario

\* End of input: Ok(stat).
TestEof ==
    /\ scenario.pc = "lexing"
    /\ scenario.at = Len(scenario.lines) + 1
    /\ scenario' = [scenario EXCEPT !.pc = "done"]
    /\ UNCHANGED offScenario

TestNext ==
    \/ TestDefaultLine
    \/ TestPythonLine
    \/ TestMdLine
    \/ TestEof

SpecTests == TestInit /\ [][TestNext]_vars

(***************************************************************************)
(* parser/: ArgParser::build_matches over a drawn command line, a token    *)
(* per step                                                                *)
(***************************************************************************)
MaxArgs == 3

FilesName == <<"f", "i", "l", "e", "s">>

VerboseName == <<"v", "e", "r", "b", "o", "s", "e">>

PathName == <<"p", "a", "t", "h">>

DebugName == <<"d", "e", "b", "u", "g">>

\* Arg::new(name) with short, long, action and parser set; the default is
\* action Set with the String parser.
ParserArgs ==
    { [name |-> FilesName, short |-> "f", long |-> FilesName,
       action |-> "Append", value_type |-> "String"],
      [name |-> VerboseName, short |-> "v", long |-> VerboseName,
       action |-> "Count", value_type |-> "u8"],
      [name |-> PathName, short |-> "p", long |-> PathName,
       action |-> "Set", value_type |-> "String"],
      [name |-> DebugName, short |-> "d", long |-> DebugName,
       action |-> "SetTrue", value_type |-> "bool"] }

ArgNames == {a.name : a \in ParserArgs}

\* The lookups of ArgParser: the arguments found, none or one.
GetArg(name) == {a \in ParserArgs : a.name = name}

GetArgByLong(long) == {a \in ParserArgs : a.long = long}

GetArgByShort(short) == {a \in ParserArgs : a.short = short}

\* u8::to_string: the decimal digits.
Digit(d) ==
    CASE d = 0 -> "0" [] d = 1 -> "1" [] d = 2 -> "2" [] d = 3 -> "3" [] d = 4 -> "4"
      [] d = 5 -> "5" [] d = 6 -> "6" [] d = 7 -> "7" [] d = 8 -> "8" [] OTHER -> "9"

RECURSIVE U8ToString(_)
U8ToString(n) ==
    IF n < 10 THEN <<Digit(n)>> ELSE U8ToString(n \div 10) \o <<Digit(n % 10)>>

\* str::parse::<u8>: an optional '+', then digits whose value fits 8 bits.
DigitValue(ch) == CHOOSE d \in 0..9 : Digit(d) = ch

RECURSIVE DigitsValue(_)
DigitsValue(s) ==
    IF s = <<>> THEN 0
    ELSE 10 * DigitsValue(SubSeq(s, 1, Len(s) - 1)) + DigitValue(s[Len(s)])

ParseU8(s) ==
    LET digits == IF s # <<>> /\ s[1] = "+" THEN Tail(s) ELSE s
    IN  IF /\ digits # <<>>
           /\ \A i \in DOMAIN digits : \E d \in 0..9 : Digit(d) = digits[i]
           /\ DigitsValue(digits) < 256
        THEN [ok |-> TRUE, value |-> DigitsValue(digits)]
        ELSE [ok |-> FALSE, value |-> 0]

\* str::parse::<bool>.
ParseBool(s) ==
    IF s = <<"t", "r", "u", "e">> THEN [ok |-> TRUE, value |-> TRUE]
    ELSE IF s = <<"f", "a", "l", "s", "e">> THEN [ok |-> TRUE, value |-> FALSE]
    ELSE [ok |-> FALSE, value |-> FALSE]

\* Arg::parse: DefaultParser<T> by the argument's type.
ArgParse(arg, s) ==
    CASE arg.value_type = "u8" -> ParseU8(s)
      [] arg.value_type = "bool" -> ParseBool(s)
      [] OTHER -> [ok |-> TRUE, value |-> s]

MatchesNew ==
    [values |-> [n \in ArgNames |-> <<>>], types |-> [n \in ArgNames |-> NoName]]

\* Matches::set: the argument holds the one value.
MatchesSet(m, name, value, value_type) ==
    [values |-> [m.values EXCEPT ![name] = <<value>>],
     types |-> [m.types EXCEPT ![name] = value_type]]

\* Matches::append: one more value behind those the argument holds.
MatchesAppend(m, name, value, value_type) ==
    IF m.types[name] # NoName /\ m.types[name] # value_type
    THEN [ok |-> FALSE, err |-> "ArgMismatch", matches |-> m]
    ELSE [ok |-> TRUE, err |-> NoName,
          matches |-> [values |-> [m.values EXCEPT ![name] = Append(@, value)],
                       types |-> [m.types EXCEPT ![name] = value_type]]]

\* Matches::try_get_one::<T>: the last value held, none or one.
TryGetOne(m, name, value_type) ==
    IF m.values[name] # <<>> /\ m.types[name] = value_type
    THEN {m.values[name][Len(m.values[name])]}
    ELSE {}

\* ArgCursor over argv, at the 1-based index of the token next() returns.
IsNextFlag(argv, at) == at <= Len(argv) /\ StartsWith(argv[at], <<"-">>)

NextIfValue(argv, at) ==
    IF ~IsNextFlag(argv, at) /\ at <= Len(argv)
    THEN [some |-> TRUE, value |-> argv[at], at |-> at + 1]
    ELSE [some |-> FALSE, value |-> <<>>, at |-> at]

ParseFails(err, at, m) == [ok |-> FALSE, err |-> err, at |-> at, matches |-> m]

ParseOk(at, m) == [ok |-> TRUE, err |-> NoName, at |-> at, matches |-> m]

\* u8::saturating_add(1).
SaturatingAdd1(cnt) == IF cnt + 1 < 256 THEN cnt + 1 ELSE cnt

\* ArgParser::act_parse.
ActParse(arg, argv, at, m) ==
    CASE arg.action \in {"Set", "Append"} ->
            LET v == NextIfValue(argv, at)
                value == ArgParse(arg, v.value)
                appended == MatchesAppend(m, arg.name, value.value, arg.value_type)
            IN  IF ~v.some THEN ParseFails("NoValue", at, m)
                ELSE IF ~value.ok THEN ParseFails("FromString", v.at, m)
                ELSE IF arg.action = "Set"
                THEN ParseOk(v.at, MatchesSet(m, arg.name, value.value, arg.value_type))
                ELSE IF ~appended.ok THEN ParseFails(appended.err, v.at, m)
                ELSE ParseOk(v.at, appended.matches)
      [] arg.action = "Count" ->
            LET held == TryGetOne(m, arg.name, "u8")
                cnt == IF held = {} THEN 0 ELSE CHOOSE c \in held : TRUE
                value == ArgParse(arg, U8ToString(SaturatingAdd1(cnt)))
            IN  IF ~value.ok THEN ParseFails("FromString", at, m)
                ELSE ParseOk(at, MatchesSet(m, arg.name, value.value, arg.value_type))
      [] OTHER ->
            LET value == ArgParse(arg, <<"t", "r", "u", "e">>)
            IN  IF ~value.ok THEN ParseFails("FromString", at, m)
                ELSE ParseOk(at, MatchesSet(m, arg.name, value.value, arg.value_type))

\* handle_long_flag.
HandleLongFlag(key, argv, at, m) ==
    IF GetArgByLong(key) = {} THEN ParseFails("UnknownFlag", at, m)
    ELSE ActParse(CHOOSE a \in GetArgByLong(key) : TRUE, argv, at, m)

\* The loop over the characters of a short group, handle_short_flag on each.
RECURSIVE HandleShortFlags(_, _, _, _)
HandleShortFlags(flags, argv, at, m) ==
    IF flags = <<>> THEN ParseOk(at, m)
    ELSE IF GetArgByShort(Head(flags)) = {} THEN ParseFails("UnknownFlag", at, m)
    ELSE LET r == ActParse(CHOOSE a \in GetArgByShort(Head(flags)) : TRUE, argv, at, m)
         IN  IF ~r.ok THEN r ELSE HandleShortFlags(Tail(flags), argv, r.at, r.matches)

\* handle_value: cur is the text of the long flag seen last.
HandleValue(cur, argv, at, m) ==
    IF GetArg(cur) = {} THEN ParseFails("UnknownArg", at, m)
    ELSE ActParse(CHOOSE a \in GetArg(cur) : TRUE, argv, at, m)

(***************************************************************************)
(* SpecParse: build_matches on a drawn command line                        *)
(***************************************************************************)
ParseTokens ==
    { <<"-", "-">> \o FilesName, <<"-", "-">> \o VerboseName, <<"-", "-", "x">>,
      <<"-", "f">>, <<"-", "v">>, <<"-", "v", "v", "v">>, <<"-", "v", "f">>,
      <<"-", "p">>, <<"-", "d">>, <<"a">>, <<"b">> }

\* build_matches is entered: a new cursor, new Matches, no current argument.
ParseInit ==
    /\ parse \in { [pc |-> "parsing", argv |-> argv, at |-> 1, matches |-> MatchesNew,
                    cur_arg |-> <<>>, result |-> NoName] :
                   argv \in SeqsUpTo(ParseTokens, MaxArgs) }
    /\ CountIdle
    /\ WalkIdle
    /\ FfiIdle
    /\ ScenarioIdle
    /\ ReadIdle
    /\ StatsIdle
    /\ LexIdle
    /\ PipeIdle
    /\ ScanIdle

\* The state after a handler returned r: `?` ends the call on an error.
ParseAfter(r, cur) ==
    IF r.ok
    THEN parse' = [parse EXCEPT !.at = r.at, !.matches = r.matches, !.cur_arg = cur]
    ELSE parse' = [parse EXCEPT !.pc = "done", !.at = r.at, !.result = r.err]

\* cursor.next() is a token that begins with "--".
ParseLongFlag ==
    /\ parse.pc = "parsing"
    /\ parse.at <= Len(parse.argv)
    /\ StartsWith(parse.argv[parse.at], <<"-", "-">>)
    /\ ParseAfter(HandleLongFlag(SliceFrom(parse.argv[parse.at], 2), parse.argv,
                                 parse.at + 1, parse.matches),
                  <<SliceFrom(parse.argv[parse.at], 2)>>)
    /\ UNCHANGED offParse

\* cursor.next() is a token that begins with one "-".
ParseShortFlags ==
    /\ parse.pc = "parsing"
    /\ parse.at <= Len(parse.argv)
    /\ ~StartsWith(parse.argv[parse.at], <<"-", "-">>)
    /\ StartsWith(parse.argv[parse.at], <<"-">>)
    /\ ParseAfter(HandleShortFlags(SliceFrom(parse.argv[parse.at], 1), parse.argv,
                                   parse.at + 1, parse.matches),
                  <<>>)
    /\ UNCHANGED offParse

\* cursor.next() is any other token.
ParseValue ==
    /\ parse.pc = "parsing"
    /\ parse.at <= Len(parse.argv)
    /\ ~StartsWith(parse.argv[parse.at], <<"-">>)
    /\ IF parse.cur_arg # <<>>
       THEN ParseAfter(HandleValue(parse.cur_arg[1], parse.argv, parse.at + 1,
                                   parse.matches),
                       parse.cur_arg)
       ELSE parse' = [parse EXCEPT !.at = @ + 1]
    /\ UNCHANGED offParse

\* cursor.next() is None: Ok(matches).
ParseEnd ==
    /\ parse.pc = "parsing"
    /\ parse.at = Len(parse.argv) + 1
    /\ parse' = [parse EXCEPT !.pc = "done", !.result = "Ok"]
    /\ UNCHANGED offParse

ParseNext ==
    \/ ParseLongFlag
    \/ ParseShortFlags
    \/ ParseValue
    \/ ParseEnd

SpecParse == ParseInit /\ [][ParseNext]_vars

(***************************************************************************)
(* SpecRead: the reads of Counter::count on an opened file: the sniff of   *)
(* is_binary_file, then BufReader filling its buffer through LossyReader   *)
(***************************************************************************)
MaxUnits == 3

MaxCap == 2

\* The characters of a file: an ASCII letter, a line feed, and one character
\* of two bytes (lead byte C3, continuation byte A9).
Units == { <<"a">>, <<"\n">>, <<"C3", "A9">> }

\* U+FFFD as bytes.
Replacement == <<"EF", "BF", "BD">>

RECURSIVE Flatten(_)
Flatten(us) == IF us = <<>> THEN <<>> ELSE Head(us) \o Flatten(Tail(us))

\* The valid UTF-8 contents of at most n characters.
Contents(n) == {Flatten(us) : us \in SeqsUpTo(Units, n)}

\* String::from_utf8_lossy(bytes).as_bytes(): a lead byte without its
\* continuation byte, or a continuation byte without its lead byte, becomes
\* U+FFFD; everything else is kept.
RECURSIVE FromUtf8Lossy(_)
FromUtf8Lossy(bytes) ==
    IF bytes = <<>> THEN <<>>
    ELSE IF Head(bytes) = "C3" /\ Len(bytes) >= 2 /\ bytes[2] = "A9"
    THEN <<"C3", "A9">> \o FromUtf8Lossy(SliceFrom(bytes, 2))
    ELSE IF Head(bytes) \in {"C3", "A9"}
    THEN Replacement \o FromUtf8Lossy(Tail(bytes))
    ELSE <<Head(bytes)>> \o FromUtf8Lossy(Tail(bytes))

\* File::read into a buffer of len bytes at the given offset: the bytes read.
FileRead(content, offset, len) ==
    Slice(content, offset, Min(Len(content), offset + len))

\* LossyReader::read(buf) with buf.len() = len: the inner read into temp_buf of
\* 4 * len bytes, the lossy conversion, and the copy of at most len bytes.
LossyReaderRead(content, offset, len) ==
    LET chunk == FileRead(content, offset, len * 4)
        lossy_bytes == FromUtf8Lossy(chunk)
    IN [bytes_read |-> Len(chunk),
        copied |-> Slice(lossy_bytes, 0, Min(len, Len(lossy_bytes)))]

\* reader.lines().count() over a byte stream: the lines ended by a line feed,
\* and the rest behind the last one when it is not empty.
RECURSIVE LinesCount(_)
LinesCount(bytes) ==
    IF bytes = <<>> THEN 0
    ELSE IF \E i \in DOMAIN bytes : bytes[i] = "\n"
    THEN LET i == CHOOSE k \in DOMAIN bytes :
                    bytes[k] = "\n" /\ \A j \in 1..(k - 1) : bytes[j] # "\n"
         IN 1 + LinesCount(SliceFrom(bytes, i))
    ELSE 1

\* File::open succeeded: the file is at offset 0 and nothing is read yet.
ReadInit ==
    /\ reading \in { [pc |-> "opened", content |-> c, cap |-> n, offset |-> 0,
                      received |-> <<>>] :
                     c \in Contents(MaxUnits), n \in 1..MaxCap }
    /\ CountIdle
    /\ WalkIdle
    /\ FfiIdle
    /\ ScenarioIdle
    /\ ParseIdle
    /\ StatsIdle
    /\ LexIdle
    /\ PipeIdle
    /\ ScanIdle

\* is_binary_file: a read of at most 1024 bytes; Ok(0) leaves the file where
\* it is, Ok(n) seeks back to the start. No content holds a NUL byte.
ReadSniff ==
    /\ reading.pc = "opened"
    /\ LET n == Len(FileRead(reading.content, reading.offset, SniffLen))
       IN reading' = [reading EXCEPT !.pc = "lexing",
                                     !.offset = IF n = 0 THEN @ ELSE 0]
    /\ UNCHANGED offRead

\* BufReader::fill_buf: a LossyReader::read into the buffer of cap bytes; what
\* it copied is what the lexer's lines() goes on with.
ReadFill ==
    /\ reading.pc = "lexing"
    /\ LET r == LossyReaderRead(reading.content, reading.offset, reading.cap)
       IN /\ r.bytes_read # 0
          /\ reading' = [reading EXCEPT !.offset = @ + r.bytes_read,
                                        !.received = @ \o r.copied]
    /\ UNCHANGED offRead

\* LossyReader::read returns Ok(0): the end of the stream.
ReadEof ==
    /\ reading.pc = "lexing"
    /\ LossyReaderRead(reading.content, reading.offset, reading.cap).bytes_read = 0
    /\ reading' = [reading EXCEPT !.pc = "eof"]
    /\ UNCHANGED offRead

ReadNext ==
    \/ ReadSniff
    \/ ReadFill
    \/ ReadEof

SpecRead == ReadInit /\ [][ReadNext]_vars

(***************************************************************************)
(* SpecCount: Counter::count on a drawn file, a stage per step             *)
(***************************************************************************)
\* Extensions of the files counted: three the registry knows, two it does not.
CountExts == {"c", "py", "md", "bak", ""}

CountName(ext) ==
    CASE ext = "c" -> "a.c"
      [] ext = "py" -> "b.py"
      [] ext = "md" -> "r.md"
      [] ext = "bak" -> "n.bak"
      [] OTHER -> "Makefile"

\* Size and offset of the first NUL byte: an empty file, a file that is one
\* NUL byte, a text file, and NUL bytes at the last sniffed offset and right
\* after it.
CountShapes ==
    { [size |-> 0, nul |-> NoNul],
      [size |-> 1, nul |-> 0],
      [size |-> 9, nul |-> NoNul],
      [size |-> 2000, nul |-> SniffLen - 1],
      [size |-> 2000, nul |-> SniffLen] }

CountFiles ==
    { [ext |-> e, openable |-> o, size |-> sh.size, nul |-> sh.nul,
       content |-> IF sh.size = 0 THEN <<>> ELSE << <<"x">> >>] :
      e \in CountExts, o \in BOOLEAN, sh \in CountShapes }

\* What get_type_from_ext may answer for ext: the registry's language, or for
\* an extension it does not list None, or LangType::Unknown should a
\* definition carry that type.
Resolutions(ext) ==
    IF TypeFromExt(ext) # NoName THEN {TypeFromExt(ext)} ELSE {NoName, "Unknown"}

CountInit ==
    /\ counting \in { [pc |-> "resolve", path |-> <<1, CountName(f.ext)>>, file |-> f,
                        lang_type |-> NoName, opened |-> FALSE, sniffed |-> FALSE,
                        lexed |-> FALSE, result |-> NoResult] : f \in CountFiles }
    /\ WalkIdle
    /\ FfiIdle
    /\ ScenarioIdle
    /\ ParseIdle
    /\ ReadIdle
    /\ StatsIdle
    /\ LexIdle
    /\ PipeIdle
    /\ ScanIdle

CountFails(kind) ==
    counting' = [counting EXCEPT !.pc = "done", !.result = CounterError(kind)]

\* A count that tries to open the file whatever the extension resolved to.
AfterResolveOpenAnyway(lang_type) == "open"

\* get_type_from_ext(..).ok_or_else(LexError)?
AfterResolve(lang_type) == IF lang_type = NoName THEN "fail" ELSE "open"

CountResolve(lang_type) ==
    /\ counting.pc = "resolve"
    /\ lang_type \in Resolutions(counting.file.ext)
    /\ IF AfterResolve(lang_type) = "fail"
       THEN CountFails("LexError")
       ELSE counting' = [counting EXCEPT !.pc = "open", !.lang_type = lang_type]
    /\ UNCHANGED offCount

\* File::open(path).map_err(IoError)?
CountOpen ==
    /\ counting.pc = "open"
    /\ IF ~counting.file.openable
       THEN CountFails("IoError")
       ELSE counting' = [counting EXCEPT !.pc = "sniff", !.opened = TRUE]
    /\ UNCHANGED offCount

\* if is_binary_file(&mut file) { return Err(BinaryFile) }
CountSniff ==
    /\ counting.pc = "sniff"
    /\ IF IsBinaryFile(counting.file)
       THEN counting' = [counting EXCEPT !.pc = "done", !.sniffed = TRUE,
                                        !.result = CounterError("BinaryFile")]
       ELSE counting' = [counting EXCEPT !.pc = "get_lexer", !.sniffed = TRUE]
    /\ UNCHANGED offCount

\* LexerFactory::get_lexer(lang_type).ok_or_else(LexError)?
CountGetLexer ==
    /\ counting.pc = "get_lexer"
    /\ IF GetLexer(counting.lang_type) = NoName
       THEN CountFails("LexError")
       ELSE counting' = [counting EXCEPT !.pc = "lex"]
    /\ UNCHANGED offCount

\* lexer.lex(&mut reader) and the stamping of the FileStat.
CountLex ==
    /\ counting.pc = "lex"
    /\ counting' = [counting EXCEPT
            !.pc = "done", !.lexed = TRUE,
            !.result = Stamp(Lex(GetLexer(counting.lang_type), counting.lang_type,
                                 counting.file.content),
                             counting.lang_type, counting.path)]
    /\ UNCHANGED offCount

CountNext ==
    \/ \E l \in {NoName, "C", "Python", "Markdown", "Unknown"} : CountResolve(l)
    \/ CountOpen
    \/ CountSniff
    \/ CountGetLexer
    \/ CountLex

SpecCount == CountInit /\ [][CountNext]_vars

(***************************************************************************)
(* SpecLex: one lexer over a drawn file, a physical line per step          *)
(***************************************************************************)
MaxLines == 4

\* Lines of a C file.
CLines ==
    { <<>>,
      <<" ">>,
      <<"/", "/", "c">>,
      <<"/", "/", "/", "*">>,
      <<"/", "*", "c">>,
      <<"c", "*", "/">>,
      <<"*", "/", "x">>,
      <<"/", "*", "c", "*", "/">>,
      <<"x", "/", "*", "c", "*", "/">>,
      <<"x", "/", "*">>,
      <<"i", " ", "f", "(", ")", "{">>,
      <<"i", " ", "f", "(", ")", "{", "}">>,
      <<"{">>,
      <<"}">>,
      <<"}", "}">>,
      <<"x">> }

\* Lines of a Python file.
PyLines ==
    { <<>>,
      <<"#", "c">>,
      <<"x">>,
      <<" ", "x">>,
      <<"\t", "x">>,
      <<"x", "#", "c">>,
      <<"d", "e", "f", " ", "f", "(", ")", ":">>,
      <<" ", "d", "e", "f", " ", "f", "(", ")", ":">>,
      <<" ", "\"", "\"", "\"">>,
      <<" ", "\"", "\"", "\"", "d", "\"", "\"", "\"">>,
      <<" ", "\"", "\"", "\"", "d">>,
      <<"d", "\"", "\"", "\"", "x">>,
      <<"d", "\"", "\"", "\"">>,
      <<"'", "'", "'", "x">>,
      <<"x", "\\", "#">>,
      <<"c", "l", "a", "s", "s", " ", "A", ":">> }

\* Lines of a Markdown file.
MdLines == { <<>>, <<"#", " ", "x">>, <<"x">> }

\* The policies of the extent tracker as the specification states them, kept
\* beside the lexer: in_function and depth of the brace-depth policy with its
\* floor of 0, and how many lines it credits to functions and to classes.
ExpectedNone == [in_function |-> FALSE, depth |-> 0, functions |-> 0, classes |-> 0]

\* The code text of a classified line: the trimmed line of a Code line, the
\* span of a Mixed line, nothing of a Blank or Comment line.
CodeOf(trimmed, kind, pos) ==
    CASE kind = "Code" -> trimmed
      [] kind = "Mixed" /\ pos # None -> Slice(trimmed, pos[1], pos[2])
      [] OTHER -> None

\* Each '{' increments depth, each '}' decrements it, with floor 0.
RECURSIVE FlooredBraces(_, _)
FlooredBraces(code, depth) ==
    IF code = <<>> THEN depth
    ELSE FlooredBraces(Tail(code),
                       IF Head(code) = "{" THEN depth + 1
                       ELSE IF Head(code) = "}" /\ depth > 0 THEN depth - 1
                       ELSE depth)

\* At the start of a line: function mode is left when the depth is back at 0.
ExpectedLeave(e) ==
    IF e.in_function /\ e.depth = 0 THEN [e EXCEPT !.in_function = FALSE] ELSE e

\* A class-pattern match on the code of the line is credited once.
ExpectedClasses(code, def, e) ==
    IF code # None /\ IsClassMatch(def, code) THEN [e EXCEPT !.classes = @ + 1] ELSE e

ExpectedCredit(e) ==
    IF e.in_function THEN [e EXCEPT !.functions = @ + 1] ELSE e

ExpectedScan(code, e) ==
    ExpectedCredit(IF code = None THEN e
                   ELSE [e EXCEPT !.depth = FlooredBraces(code, e.depth)])

\* The brace-depth policy over the code of one line, e being the state after
\* the check at the start of the line.
ExpectedBraces(code, def, e) ==
    ExpectedScan(code,
        ExpectedClasses(code, def,
            IF code # None /\ ~e.in_function /\ IsMatch(def, code)
            THEN [e EXCEPT !.in_function = TRUE, !.depth = 0]
            ELSE e))

LexInit ==
    /\ lexer \in {"Default", "Python", "Md"}
    /\ stat = FileStatDefault
    /\ ctx = LexCtxDefault
    /\ fn_ctx = FnCtxDefault
    /\ py = PyCtxDefault
    /\ lastLine = <<>>
    /\ lastKind = [kind |-> "none", pos |-> None]
    /\ lexPc = "lexing"
    /\ expected = ExpectedNone
    /\ StatsIdle
    /\ PipeIdle
    /\ ScanIdle
    /\ CallsIdle

\* The iteration's result r becomes the lexer's state.
DefaultLexAssign(raw, r) ==
    /\ stat' = r.stat
    /\ ctx' = r.ctx
    /\ fn_ctx' = r.fn_ctx
    /\ lastKind' = [kind |-> r.kind, pos |-> r.pos]
    /\ expected' = ExpectedBraces(CodeOf(Trim(raw), r.kind, r.pos), C_DEF, ExpectedLeave(expected))

PythonLexAssign(raw, r) ==
    /\ stat' = r.stat
    /\ ctx' = r.ctx
    /\ py' = r.py
    /\ lastKind' = [kind |-> r.kind, pos |-> r.pos]
    /\ expected' = ExpectedClasses(CodeOf(Trim(raw), r.kind, r.pos), PY_DEF, expected)

\* DefaultLexer::lex reads one more line of a C file.
DefaultLexStep(raw) ==
    /\ lexPc = "lexing"
    /\ lexer = "Default"
    /\ stat.lines < MaxLines
    /\ DefaultLexAssign(raw, DefaultLexLine(raw, stat, ctx, fn_ctx, C_DEF))
    /\ lastLine' = raw
    /\ UNCHANGED <<lexer, py, lexPc, offLex>>

\* PythonLexer::lex reads one more line.
PythonLexStep(raw) ==
    /\ lexPc = "lexing"
    /\ lexer = "Python"
    /\ stat.lines < MaxLines
    /\ PythonLexAssign(raw, PythonLexLine(raw, stat, ctx, py, PY_DEF))
    /\ lastLine' = raw
    /\ UNCHANGED <<lexer, fn_ctx, lexPc, offLex>>

\* MdLexer::lex reads one more line.
MdLexStep(raw) ==
    /\ lexPc = "lexing"
    /\ lexer = "Md"
    /\ stat.lines < MaxLines
    /\ stat' = MdLexLine(raw, stat)
    /\ lastLine' = raw
    /\ UNCHANGED <<lexer, ctx, fn_ctx, py, lastKind, lexPc, expected, offLex>>

\* End of input: lex returns Ok(stat).
LexEof ==
    /\ lexPc = "lexing"
    /\ lexPc' = "done"
    /\ UNCHANGED <<lexer, stat, ctx, fn_ctx, py, lastLine, lastKind, expected, offLex>>

LexNext ==
    \/ \E raw \in CLines : DefaultLexStep(raw)
    \/ \E raw \in PyLines : PythonLexStep(raw)
    \/ \E raw \in MdLines : MdLexStep(raw)
    \/ LexEof

SpecLex == LexInit /\ [][LexNext]_vars

(***************************************************************************)
(* SpecFiles: two threads, each calling Lexer::lex on one file after       *)
(* another                                                                 *)
(***************************************************************************)
MaxScanLines == 2

MaxScans == 2

\* The threads lexing at the same time.
Scanners == {1, 2}

\* Lines of the files: a block comment or docstring left open, a signature.
ScanLines(strategy) ==
    IF strategy = "Python"
    THEN { <<" ", "\"", "\"", "\"">>, <<"d", "e", "f", " ", "f", "(", ")", ":">> }
    ELSE { <<"/", "*", "c">>, <<"i", " ", "f", "(", ")", "{">> }

\* A lex call that goes on with the state the call before it left.
KeptState(prev) == [ctx |-> prev.ctx, fn_ctx |-> prev.fn_ctx, py |-> prev.py]

\* The locals a lex call starts from: LexCtx::default(), FnCtx::default(),
\* PyCtx::default(), whatever the call before it left (prev).
FreshState(prev) == [ctx |-> LexCtxDefault, fn_ctx |-> FnCtxDefault, py |-> PyCtxDefault]

\* Whether a scan stopped inside a block comment, a docstring or a function.
LeftOpen(sc) ==
    \/ sc.ctx.in_block_comment
    \/ sc.ctx.in_string
    \/ sc.fn_ctx.in_function
    \/ sc.py.in_fn
    \/ sc.py.fn_def_line

ScanInit ==
    /\ scans \in [Scanners -> {[lexer |-> l, pc |-> "idle", calls |-> 0,
                                 stat |-> FileStatDefault, ctx |-> LexCtxDefault,
                                 fn_ctx |-> FnCtxDefault, py |-> PyCtxDefault,
                                 scanned |-> <<>>, after_open |-> FALSE] :
                                 l \in {"Default", "Python"}}]
    /\ StatsIdle
    /\ LexIdle
    /\ PipeIdle
    /\ CallsIdle

ScanStarted(k, fresh) ==
    scans' = [scans EXCEPT ![k] =
                [@ EXCEPT !.pc = "lexing", !.calls = @ + 1, !.stat = FileStatDefault,
                          !.ctx = fresh.ctx, !.fn_ctx = fresh.fn_ctx, !.py = fresh.py,
                          !.scanned = <<>>, !.after_open = LeftOpen(scans[k])]]

\* lex is called on the next file: its locals are created.
ScanStart(k) ==
    /\ scans[k].pc = "idle"
    /\ scans[k].calls < MaxScans
    /\ ScanStarted(k, FreshState(scans[k]))
    /\ UNCHANGED offScan

ScanStepped(k, raw, r) ==
    scans' = [scans EXCEPT ![k] =
                [@ EXCEPT !.stat = r.stat, !.ctx = r.ctx,
                          !.fn_ctx = IF scans[k].lexer = "Default" THEN r.fn_ctx ELSE @,
                          !.py = IF scans[k].lexer = "Python" THEN r.py ELSE @,
                          !.scanned = Append(@, raw)]]

\* One iteration of the loop of lex in scanner k.
ScanLine(k, raw) ==
    /\ scans[k].pc = "lexing"
    /\ Len(scans[k].scanned) < MaxScanLines
    /\ raw \in ScanLines(scans[k].lexer)
    /\ ScanStepped(k, raw,
            IF scans[k].lexer = "Python"
            THEN PythonLexLine(raw, scans[k].stat, scans[k].ctx, scans[k].py, PY_DEF)
            ELSE DefaultLexLine(raw, scans[k].stat, scans[k].ctx, scans[k].fn_ctx, C_DEF))
    /\ UNCHANGED offScan

\* End of input: lex returns Ok(stat) and its locals go out of scope.
ScanEnd(k) ==
    /\ scans[k].pc = "lexing"
    /\ scans' = [scans EXCEPT ![k].pc = "idle"]
    /\ UNCHANGED offScan

ScanNext ==
    \/ \E k \in Scanners : ScanStart(k)
    \/ \E k \in Scanners : \E raw \in ScanLines("Default") \cup ScanLines("Python") :
            ScanLine(k, raw)
    \/ \E k \in Scanners : ScanEnd(k)

SpecFiles == ScanInit /\ [][ScanNext]_vars

(***************************************************************************)
(* SpecStats: the aggregator applied to drawn lists                        *)
(***************************************************************************)
MaxStats == 3

\* The FileStat values of the tests in utils/save.rs, scaled down, and two
\* more of the same language with different counters.
StatSamples ==
    { [FileStatDefault EXCEPT !.lang = "Rust", !.path = "test.rs", !.name = "test.rs",
          !.lines = 3, !.code = 1, !.comments = 1, !.blanks = 1,
          !.functions = 1, !.classes = 2],
      [FileStatDefault EXCEPT !.lang = "Rust", !.path = "lib.rs", !.name = "lib.rs",
          !.lines = 1, !.code = 1],
      [FileStatDefault EXCEPT !.lang = "Javascript", !.path = "test.js", !.name = "test.js",
          !.lines = 2, !.code = 1, !.blanks = 1, !.functions = 1, !.classes = 1] }

Langs == {s.lang : s \in StatSamples}

StatsInit ==
    /\ input \in SeqsUpTo(StatSamples, MaxStats)
    /\ processed = {}
    /\ whole = ReportNew
    /\ part1 = ReportNew
    /\ part2 = ReportNew
    /\ merged = ReportNew
    /\ statsPc = "adding"
    /\ LexIdle
    /\ PipeIdle
    /\ ScanIdle
    /\ CallsIdle

\* One file is added to the whole-list Report and to the first subset.
AddToFirst(i) ==
    /\ statsPc = "adding"
    /\ i \in DOMAIN input \ processed
    /\ processed' = processed \cup {i}
    /\ whole' = ReportAdd(whole, input[i])
    /\ part1' = ReportAdd(part1, input[i])
    /\ UNCHANGED <<input, part2, merged, statsPc, offStats>>

\* One file is added to the whole-list Report and to the second subset.
AddToSecond(i) ==
    /\ statsPc = "adding"
    /\ i \in DOMAIN input \ processed
    /\ processed' = processed \cup {i}
    /\ whole' = ReportAdd(whole, input[i])
    /\ part2' = ReportAdd(part2, input[i])
    /\ UNCHANGED <<input, part1, merged, statsPc, offStats>>

\* The per-subset LangStat of every language are combined with LangStat::add.
Combine ==
    /\ statsPc = "adding"
    /\ processed = DOMAIN input
    /\ merged' = [l \in DOMAIN part1 \cup DOMAIN part2 |->
                    LangStatAdd(GetOrNew(part1, l), GetOrNew(part2, l))]
    /\ statsPc' = "combined"
    /\ UNCHANGED <<input, processed, whole, part1, part2, offStats>>

StatsNext ==
    \/ \E i \in 1..MaxStats + 1 : AddToFirst(i)
    \/ \E i \in 1..MaxStats + 1 : AddToSecond(i)
    \/ Combine

SpecStats == StatsInit /\ [][StatsNext]_vars

\* Report::add folded over a list in list order.
RECURSIVE FoldAdd(_, _)
FoldAdd(rep, stats) ==
    IF stats = <<>> THEN rep
    ELSE FoldAdd(ReportAdd(rep, Head(stats)), Tail(stats))


(***************************************************************************)
(* toukei_dll/src/lib.rs: the foreign-callable analyze_code                *)
(***************************************************************************)
MaxFfiFiles == 2

\* A null *mut c_char.
NullPtr == [null |-> TRUE]

TotalsZero ==
    [files |-> 0, lines |-> 0, code |-> 0, comments |-> 0, blanks |-> 0,
     functions |-> 0, classes |-> 0]

\* The C string of a serialised FfiResult.
Payload(result) == [null |-> FALSE, json |-> result]

\* An error path that hands back no payload.
CreateErrorResponseNull(error_msg) == NullPtr

\* create_error_response: success false, the message, no languages, zero
\* totals. The serialised text never holds a NUL byte, so the fallbacks are
\* not taken.
CreateErrorResponse(error_msg) ==
    Payload([success |-> FALSE, error |-> error_msg, languages |-> <<>>,
             total |-> TotalsZero])

\* LanguageStat of an entry of the report.
LanguageStat(rep, lang) == [language |-> lang] @@ TotalsOf(rep[lang])

\* The orders languages.sort_by(lines descending) may leave the entries in:
\* the map is iterated in any order and equal line counts keep it.
SortedLanguages(rep) ==
    { q \in [1..Cardinality(DOMAIN rep) -> DOMAIN rep] :
        /\ \A i, j \in DOMAIN q : i # j => q[i] # q[j]
        /\ \A i, j \in DOMAIN q : i < j => rep[q[i]].lines >= rep[q[j]].lines }

\* The totals summed over the entries in the order order.
RECURSIVE SumTotals(_, _, _)
SumTotals(rep, order, acc) ==
    IF order = <<>> THEN acc
    ELSE SumTotals(rep, Tail(order),
                   [f \in DOMAIN acc |-> acc[f] + TotalsOf(rep[Head(order)])[f]])

\* FfiResult::from(report) with the languages left in the order order.
FfiResultFrom(rep, order) ==
    [success |-> TRUE, error |-> NoName,
     languages |-> [i \in DOMAIN order |-> LanguageStat(rep, order[i])],
     total |-> SumTotals(rep, order, TotalsZero)]

\* What the analysis run by analyze_code may do: return a Report, return
\* Err, or panic; in async mode the runtime may fail to start.
FfiRuns ==
    {[kind |-> "Ok", report |-> FoldAdd(ReportNew, q)] : q \in SeqsUpTo(StatSamples, MaxFfiFiles)}
    \cup {[kind |-> "Err"], [kind |-> "panic"], [kind |-> "no_runtime"]}

\* The calls: a null pointer, bytes that are not UTF-8, text that is not the
\* JSON of an FfiConfig, and configurations in either mode with every run.
FfiInputs ==
    {[ptr |-> "null"], [ptr |-> "bytes", utf8 |-> FALSE],
     [ptr |-> "bytes", utf8 |-> TRUE, json |-> FALSE]}
    \cup {[ptr |-> "bytes", utf8 |-> TRUE, json |-> TRUE, enable_async |-> c[1],
            analysis |-> c[2]] :
            c \in {x \in BOOLEAN \X FfiRuns : x[2].kind = "no_runtime" => x[1]}}

FfiInit ==
    /\ ffi \in {[pc |-> "check_null", input |-> i, report |-> ReportNew,
                   returned |-> NullPtr] : i \in FfiInputs}
    /\ CountIdle
    /\ WalkIdle
    /\ ScenarioIdle
    /\ ParseIdle
    /\ ReadIdle
    /\ StatsIdle
    /\ LexIdle
    /\ PipeIdle
    /\ ScanIdle

\* The closure returns ptr and analyze_code returns it: match result { Ok(ptr) }.
FfiReturns(ptr) == ffi' = [ffi EXCEPT !.pc = "returned", !.returned = ptr]

\* if json_config.is_null()
FfiCheckNull ==
    /\ ffi.pc = "check_null"
    /\ IF ffi.input.ptr = "null"
       THEN FfiReturns(CreateErrorResponse("Input config is null"))
       ELSE ffi' = [ffi EXCEPT !.pc = "to_str"]
    /\ UNCHANGED offFfi

\* CStr::from_ptr(json_config).to_str()
FfiToStr ==
    /\ ffi.pc = "to_str"
    /\ IF ~ffi.input.utf8
       THEN FfiReturns(CreateErrorResponse("Invalid UTF-8 in input"))
       ELSE ffi' = [ffi EXCEPT !.pc = "from_str"]
    /\ UNCHANGED offFfi

\* serde_json::from_str(c_str)
FfiFromStr ==
    /\ ffi.pc = "from_str"
    /\ IF ~ffi.input.json
       THEN FfiReturns(CreateErrorResponse("Failed to parse JSON"))
       ELSE ffi' = [ffi EXCEPT !.pc = "analyse"]
    /\ UNCHANGED offFfi

\* Runtime::new() and run_async_analysis, or run_sync_analysis; a panic
\* unwinds to catch_unwind.
FfiAnalyse ==
    /\ ffi.pc = "analyse"
    /\ CASE ffi.input.analysis.kind = "Ok" ->
                ffi' = [ffi EXCEPT !.pc = "to_string", !.report = ffi.input.analysis.report]
         [] ffi.input.analysis.kind = "panic" ->
                ffi' = [ffi EXCEPT !.pc = "unwound"]
         [] ffi.input.analysis.kind = "no_runtime" ->
                FfiReturns(CreateErrorResponse("Failed to create async runtime"))
         [] OTHER ->
                FfiReturns(CreateErrorResponse(
                    IF ffi.input.enable_async THEN "Async analysis failed"
                    ELSE "Sync analysis failed"))
    /\ UNCHANGED offFfi

\* FfiResult::from(report), serde_json::to_string, CString::new(json).into_raw()
FfiToString ==
    /\ ffi.pc = "to_string"
    /\ \E order \in SortedLanguages(ffi.report) :
            FfiReturns(Payload(FfiResultFrom(ffi.report, order)))
    /\ UNCHANGED offFfi

\* match result { Err(_) => create_error_response("Panic occurred ...") }
FfiCaught ==
    /\ ffi.pc = "unwound"
    /\ FfiReturns(CreateErrorResponse("Panic occurred during analysis"))
    /\ UNCHANGED offFfi

FfiNext ==
    \/ FfiCheckNull
    \/ FfiToStr
    \/ FfiFromStr
    \/ FfiAnalyse
    \/ FfiToString
    \/ FfiCaught

SpecFfi == FfiInit /\ [][FfiNext]_vars

(***************************************************************************)
(* config.rs, walker.rs: the configuration and file discovery              *)
(***************************************************************************)
\* The roots of config.paths: two, as in tests/async_counter_test.rs.
Paths == <<1, 2>>

\* LangType::to_string().to_lowercase()
LangLower(lang) ==
    CASE lang = "C" -> "c"
      [] lang = "Python" -> "python"
      [] lang = "Markdown" -> "markdown"
      [] OTHER -> "unknown"

\* The Config of the runs: no exclude pattern, every modelled language enabled.
PipeConfig ==
    [paths |-> Paths, types |-> {"c", "python", "markdown"}, exclude_files |-> {}]

\* str::to_lowercase over the characters the model uses.
LowerChar(ch) ==
    CASE ch = "A" -> "a"
      [] ch = "C" -> "c"
      [] OTHER -> ch

ToLower(s) == [i \in DOMAIN s |-> LowerChar(s[i])]

\* The text of a name.
Chars(name) ==
    CASE name = "a.c" -> <<"a", ".", "c">>
      [] name = "A.C" -> <<"A", ".", "C">>
      [] name = "b.py" -> <<"b", ".", "p", "y">>
      [] name = "bin.c" -> <<"b", "i", "n", ".", "c">>
      [] name = "gone.c" -> <<"g", "o", "n", "e", ".", "c">>
      [] name = "n.bak" -> <<"n", ".", "b", "a", "k">>
      [] name = ".h.c" -> <<".", "h", ".", "c">>
      [] name = ".git" -> <<".", "g", "i", "t">>
      [] name = "Mk" -> <<"M", "k">>
      [] name = "src" -> <<"s", "r", "c">>
      [] name = "locked" -> <<"l", "o", "c", "k", "e", "d">>
      [] name = "p" -> <<"p">>
      [] name = "." -> <<".">>
      [] name = "rc/a" -> <<"r", "c", "/", "a">>
      [] name = "A" -> <<"A">>
      [] OTHER -> <<>>

\* The name of an extension's text, as get_type_from_ext is asked for it.
ExtName(ext) ==
    CASE ext = <<"c">> -> "c"
      [] ext = <<"p", "y">> -> "py"
      [] ext = <<"m", "d">> -> "md"
      [] ext = <<"b", "a", "k">> -> "bak"
      [] OTHER -> ""

\* Path::extension of a file name: the text after its last '.', None when
\* there is no '.' or the only one starts the name.
Extension(name) ==
    LET dots == {i \in DOMAIN name : name[i] = "."}
    IN IF dots \ {1} = {} THEN None
       ELSE SubSeq(name, (CHOOSE i \in dots : \A j \in dots : j <= i) + 1, Len(name))

\* Path::display of a path given by its components.
RECURSIVE PathStr(_)
PathStr(comps) ==
    IF comps = <<>> THEN <<>>
    ELSE IF Len(comps) = 1 THEN comps[1]
    ELSE comps[1] \o <<"/">> \o PathStr(Tail(comps))

\* Path::new(text).components(): the text split at '/'.
RECURSIVE Components(_)
Components(text) ==
    IF text = <<>> THEN <<>>
    ELSE LET n == SkipNot(text, 1, "/")
         IN (IF n = 1 THEN <<>> ELSE <<SubSeq(text, 1, n - 1)>>)
            \o Components(SubSeq(text, n + 1, Len(text)))

\* Path::ends_with: the components of child are the last components of comps.
PathEndsWith(comps, child) ==
    /\ child # <<>>
    /\ Len(child) <= Len(comps)
    /\ SubSeq(comps, Len(comps) - Len(child) + 1, Len(comps)) = child

\* The exclude test of include_entry for one pattern.
Excluded(comps, excl) ==
    /\ excl # <<>>
    /\ \/ PathEndsWith(comps, Components(excl))
       \/ Contains(ToLower(PathStr(comps)), ToLower(excl))

\* The language of a path by its extension, lowercased; Unknown for none.
LangOfExt(ext) ==
    IF TypeFromExt(ExtName(ToLower(ext))) = NoName THEN "Unknown"
    ELSE TypeFromExt(ExtName(ToLower(ext)))

\* The files beneath a root, by name: extension, whether File::open succeeds,
\* size, offset of the first NUL byte, and the lines of text.
Disk ==
    [name \in {"a.c", "b.py", "bin.c", "gone.c"} |->
        CASE name = "a.c" ->
                [ext |-> "c", openable |-> TRUE, size |-> 9, nul |-> NoNul,
                 content |-> << <<"i", " ", "f", "(", ")", "{">>, <<"}">> >>]
          [] name = "b.py" ->
                [ext |-> "py", openable |-> TRUE, size |-> 12, nul |-> NoNul,
                 content |-> << <<"d", "e", "f", " ", "f", "(", ")", ":">>, <<" ", "x">> >>]
          [] name = "bin.c" ->
                [ext |-> "c", openable |-> TRUE, size |-> 2000, nul |-> 1023,
                 content |-> << <<"x">> >>]
          [] OTHER ->
                [ext |-> "c", openable |-> FALSE, size |-> 0, nul |-> NoNul,
                 content |-> <<>>]]

\* An entry WalkDir yields: a file, or the error of a directory it could not read.
FileEntry(name) ==
    [ok |-> TRUE, is_dir |-> FALSE, name |-> name, comps |-> <<Chars("p"), Chars(name)>>]

ErrEntry ==
    [ok |-> FALSE, is_dir |-> TRUE, name |-> "locked",
     comps |-> <<Chars("p"), Chars("locked")>>]

\* What lies beneath each root: a C project under root 1 (a source file, a
\* binary with a .c name, a file that cannot be opened), scripts under root 2;
\* either may hold a directory that cannot be read.
NamesUnder(root) == IF root = 1 THEN {"a.c", "bin.c", "gone.c"} ELSE {"b.py", "gone.c"}

PipeEntries(root) == {FileEntry(n) : n \in NamesUnder(root)} \cup {ErrEntry}

\* An include_entry that lets hidden paths through.
IncludeEntryHiddenToo(e, config) ==
    /\ ~e.is_dir
    /\ \A excl \in config.exclude_files : ~Excluded(e.comps, excl)
    /\ Extension(e.comps[Len(e.comps)]) # None
    /\ LangOfExt(Extension(e.comps[Len(e.comps)])) # "Unknown"
    /\ LangLower(LangOfExt(Extension(e.comps[Len(e.comps)]))) \in config.types

\* FileReader::include_entry
IncludeEntry(e, config) ==
    /\ ~e.is_dir
    /\ \A i \in DOMAIN e.comps : ~StartsWith(e.comps[i], <<".">>)
    /\ \A excl \in config.exclude_files : ~Excluded(e.comps, excl)
    /\ Extension(e.comps[Len(e.comps)]) # None
    /\ LangOfExt(Extension(e.comps[Len(e.comps)])) # "Unknown"
    /\ LangLower(LangOfExt(Extension(e.comps[Len(e.comps)]))) \in config.types

\* A walk that gives up at the first entry it cannot read.
RECURSIVE WalkDirStopAtError(_, _, _)
WalkDirStopAtError(root, entries, config) ==
    IF entries = <<>> \/ ~Head(entries).ok THEN <<>>
    ELSE IF IncludeEntry(Head(entries), config)
    THEN << <<root, Head(entries).name>> >> \o WalkDirStopAtError(root, Tail(entries), config)
    ELSE WalkDirStopAtError(root, Tail(entries), config)

\* FileReader::walk_dir over the entries beneath root: filter_map(e.ok()),
\* filter(include_entry), map to the path. The result is always Ok.
RECURSIVE WalkDir(_, _, _)
WalkDir(root, entries, config) ==
    IF entries = <<>> THEN <<>>
    ELSE IF Head(entries).ok /\ IncludeEntry(Head(entries), config)
    THEN << <<root, Head(entries).name>> >> \o WalkDir(root, Tail(entries), config)
    ELSE WalkDir(root, Tail(entries), config)

(***************************************************************************)
(* SpecWalk: FileReader::walk_dir over a directory tree, an entry per step *)
(***************************************************************************)
MaxPatterns == 2

\* The roots walked: a plain directory, and the "." of Config::new.
WalkRoots == {"p", "."}

\* What WalkDir::new(root) yields when nothing is pruned, in its order: the
\* root itself, then files and directories beneath it with the names the
\* filters tell apart, and a directory that cannot be read.
WalkTree(root) ==
    LET at(ok, is_dir, names) ==
            [ok |-> ok, is_dir |-> is_dir, name |-> names[Len(names)],
             comps |-> <<Chars(root)>> \o [i \in DOMAIN names |-> Chars(names[i])]]
    IN << [ok |-> TRUE, is_dir |-> TRUE, name |-> root, comps |-> <<Chars(root)>>],
          at(TRUE, FALSE, <<"a.c">>),
          at(TRUE, FALSE, <<"A.C">>),
          at(TRUE, FALSE, <<"b.py">>),
          at(TRUE, FALSE, <<"Mk">>),
          at(TRUE, FALSE, <<"n.bak">>),
          at(TRUE, FALSE, <<".h.c">>),
          at(TRUE, TRUE, <<"src">>),
          at(TRUE, FALSE, <<"src", "a.c">>),
          at(TRUE, TRUE, <<".git">>),
          at(TRUE, FALSE, <<".git", "a.c">>),
          at(FALSE, TRUE, <<"locked">>) >>

\* Config::new(): types are the variant names of LangType as declared.
ConfigNewTypes == {"C", "Python", "Markdown"}

\* The values of config.types walked with.
WalkTypes == {{}, {"c"}, {"C"}, {"python"}, {"c", "python"}, ConfigNewTypes}

\* The exclude patterns: the empty one, a directory name, a file name, a
\* fragment across two components, a capital letter.
WalkPatterns == {<<>>, Chars("src"), Chars("a.c"), Chars("rc/a"), Chars("A")}

WalkConfigs ==
    { [paths |-> <<r>>, types |-> t, exclude_files |-> x] :
      r \in WalkRoots, t \in WalkTypes,
      x \in {y \in SUBSET WalkPatterns : Cardinality(y) <= MaxPatterns} }

WalkInit ==
    /\ walk \in { [pc |-> "walking", config |-> c, entries |-> WalkTree(c.paths[1]),
                    visited |-> 0, pruned |-> {}, files |-> <<>>, result |-> NoResult] :
                  c \in WalkConfigs }
    /\ CountIdle
    /\ FfiIdle
    /\ ScenarioIdle
    /\ ParseIdle
    /\ ReadIdle
    /\ StatsIdle
    /\ LexIdle
    /\ PipeIdle
    /\ ScanIdle

\* The entry lies beneath a directory the walk did not descend into.
Beneath(e, dirs) ==
    \E d \in dirs : Len(d) < Len(e.comps) /\ SubSeq(e.comps, 1, Len(d)) = d

\* The closure given to filter_entry: the root passes; a directory is
\* refused when its name starts with "." or its path ends with an exclude
\* pattern.
FilterEntry(e, config) ==
    \/ e.comps = <<Chars(config.paths[1])>>
    \/ ~e.is_dir
    \/ /\ ~StartsWith(e.comps[Len(e.comps)], <<".">>)
       /\ \A excl \in config.exclude_files :
              excl = <<>> \/ ~PathEndsWith(e.comps, Components(excl))

\* The walk moves past an entry beneath a directory it has pruned.
WalkSkip ==
    /\ walk.pc = "walking"
    /\ walk.visited < Len(walk.entries)
    /\ Beneath(walk.entries[walk.visited + 1], walk.pruned)
    /\ walk' = [walk EXCEPT !.visited = @ + 1]
    /\ UNCHANGED offWalk

\* filter_entry refuses a directory: it is not yielded nor descended into.
WalkPrune ==
    /\ walk.pc = "walking"
    /\ walk.visited < Len(walk.entries)
    /\ LET e == walk.entries[walk.visited + 1]
       IN /\ ~Beneath(e, walk.pruned)
          /\ e.ok
          /\ ~FilterEntry(e, walk.config)
          /\ walk' = [walk EXCEPT !.visited = @ + 1, !.pruned = @ \cup {e.comps}]
    /\ UNCHANGED offWalk

\* An entry goes through filter_map(e.ok()), filter(include_entry) and map.
WalkYield ==
    /\ walk.pc = "walking"
    /\ walk.visited < Len(walk.entries)
    /\ LET e == walk.entries[walk.visited + 1]
       IN /\ ~Beneath(e, walk.pruned)
          /\ ~e.ok \/ FilterEntry(e, walk.config)
          /\ walk' = [walk EXCEPT
                  !.visited = @ + 1,
                  !.files = IF e.ok /\ IncludeEntry(e, walk.config)
                            THEN Append(@, e.comps) ELSE @]
    /\ UNCHANGED offWalk

\* collect() and Ok(files).
WalkReturn ==
    /\ walk.pc = "walking"
    /\ walk.visited = Len(walk.entries)
    /\ walk' = [walk EXCEPT !.pc = "done",
                            !.result = [kind |-> "Ok", files |-> walk.files]]
    /\ UNCHANGED offWalk

WalkNext ==
    \/ WalkSkip
    \/ WalkPrune
    \/ WalkYield
    \/ WalkReturn

SpecWalk == WalkInit /\ [][WalkNext]_vars

\* Counter::count of every path a root can hold: a file's result depends on
\* nothing but the file, so the results are kept as a table of values (the
\* merge with the empty function makes the table hold them).
Counts == [path \in (DOMAIN Paths) \X (DOMAIN Disk) |-> Count(path, Disk[path[2]])] @@ <<>>

\* Counter::count of a discovered path.
CountPath(path) == Counts[path]

(***************************************************************************)
(* fc.rs: FileCounter::process (sync)                                      *)
(***************************************************************************)
\* The loop over config.paths: all_files.extend(walk_dir(path)?).
RECURSIVE CollectFiles(_, _)
CollectFiles(roots, t) ==
    IF roots = <<>> THEN <<>>
    ELSE WalkDir(Head(roots), t[Head(roots)], PipeConfig) \o CollectFiles(Tail(roots), t)

\* The closure of par_iter().map: Ok(Some(stat)), Ok(None) or Err(message).
MapResultOf(path, r) ==
    IF r.ok THEN [kind |-> "Some", stat |-> r.stat]
    ELSE IF r.err = "BinaryFile" THEN [kind |-> "Skip"]
    ELSE [kind |-> "Err", msg |-> <<"Failed to count file", path, r.err>>]

MapResult(path) == MapResultOf(path, CountPath(path))

\* A drain that logs an error and goes on, as the async pipeline does.
DrainOneLenient(rep, res) ==
    IF res.kind = "Some" THEN [report |-> ReportAdd(rep, res.stat), abort |-> FALSE]
    ELSE [report |-> rep, abort |-> FALSE]

\* One iteration of `for res in results`: merge, skip, or return the error.
DrainOne(rep, res) ==
    CASE res.kind = "Some" -> [report |-> ReportAdd(rep, res.stat), abort |-> FALSE]
      [] res.kind = "Skip" -> [report |-> rep, abort |-> FALSE]
      [] OTHER -> [report |-> rep, abort |-> TRUE]

Finished(res) == res.kind \notin {"pending", "running"}

SyncWalk ==
    /\ pc = "sync_walk"
    /\ all_files' = CollectFiles(PipeConfig.paths, tree)
    /\ results' = [i \in 1..Len(all_files') |-> [kind |-> "pending"]]
    /\ pc' = "sync_map"
    /\ UNCHANGED <<tree, num_workers, drained, sync_report, sync_result, asyncVars,
                   offPipe, runVars>>

\* A worker of the pool of num_threads takes an item of the parallel iterator.
SyncTaskStart(i) ==
    /\ pc = "sync_map"
    /\ i \in DOMAIN results
    /\ results[i].kind = "pending"
    /\ Cardinality({j \in DOMAIN results : results[j].kind = "running"}) < num_workers
    /\ results' = [results EXCEPT ![i] = [kind |-> "running"]]
    /\ UNCHANGED <<tree, num_workers, pc, all_files, drained, sync_report, sync_result,
                   asyncVars, offPipe, runVars>>

\* The worker's Counter::count returns; collect() stores the result at index i.
SyncTaskDone(i) ==
    /\ pc = "sync_map"
    /\ i \in DOMAIN results
    /\ results[i].kind = "running"
    /\ results' = [results EXCEPT ![i] = MapResult(all_files[i])]
    /\ UNCHANGED <<tree, num_workers, pc, all_files, drained, sync_report, sync_result,
                   asyncVars, offPipe, runVars>>

\* thread_pool.install returns once every item is mapped.
SyncCollected ==
    /\ pc = "sync_map"
    /\ \A i \in DOMAIN results : Finished(results[i])
    /\ pc' = "sync_drain"
    /\ UNCHANGED <<tree, num_workers, syncVars, asyncVars, offPipe, runVars>>

SyncDrained(d) ==
    /\ sync_report' = d.report
    /\ drained' = drained + 1
    /\ IF d.abort
       THEN /\ sync_result' = [kind |-> "Err", msg |-> results[drained + 1].msg]
            /\ pc' = "async_start"
       ELSE UNCHANGED <<sync_result, pc>>

\* One iteration of the drain loop.
SyncDrain ==
    /\ pc = "sync_drain"
    /\ drained < Len(results)
    /\ SyncDrained(DrainOne(sync_report, results[drained + 1]))
    /\ UNCHANGED <<tree, num_workers, all_files, results, asyncVars, offPipe, runVars>>

\* Ok(report)
SyncReturn ==
    /\ pc = "sync_drain"
    /\ drained = Len(results)
    /\ sync_result' = [kind |-> "Ok", report |-> sync_report]
    /\ pc' = "async_start"
    /\ UNCHANGED <<tree, num_workers, all_files, results, drained, sync_report, asyncVars,
                   offPipe, runVars>>

(***************************************************************************)
(* fc.rs: AsyncFileCounter::process                                        *)
(***************************************************************************)
\* mpsc::channel(self.num_workers * 2)
Capacity(workers) == workers * 2

\* The tasks below are spawned tasks: they run on their own state, whatever
\* the position of process itself.

\* A channel taken as closed as soon as it is empty.
ChannelClosedWhenEmpty(prods) == TRUE

\* A channel whose original Sender is never dropped.
ChannelNeverClosed(prods) == FALSE

\* recv() returns None: the channel is empty and every Sender is dropped (the
\* original by drop(tx), each clone when its producer task ends).
ChannelClosed(prods) == \A r \in DOMAIN prods : prods[r].pc = "done"

\* A semaphore that hands out a permit whatever its count.
PermitAvailableAlways(free) == TRUE

\* Semaphore::acquire can complete.
PermitAvailable(free) == free > 0

\* A per-file task that logs every result and merges none.
TaskOutcomeLogOnly(res) == "done"

\* What a per-file task does with the result of count_async: the merge of an
\* Ok(stat); a BinaryFile or any other error is logged.
TaskOutcome(res) == IF res.ok THEN "locking" ELSE "done"

\* A count in which finished tasks still hold their clone.
StrongCountKept(cons, ts) == 1 + Len(ts)

\* Arc::strong_count(&report): the original, the consumer's clone and one per
\* per-file task not yet finished.
StrongCount(cons, ts) ==
    1 + (IF cons = "done" THEN 0 ELSE 1)
      + Cardinality({t \in DOMAIN ts : ts[t].pc # "done"})

\* Channel, Report, producers and consumer are created and spawned; tx is
\* dropped. (mpsc::channel panics on a capacity of 0.)
AsyncStart ==
    /\ pc = "async_start"
    /\ Capacity(num_workers) > 0
    /\ producers' = [r \in DOMAIN tree |-> [pc |-> "walk", files |-> <<>>]]
    /\ chan' = <<>>
    /\ sent' = {}
    /\ tasks' = <<>>
    /\ consumer' = "recv"
    /\ permits' = num_workers
    /\ mutex' = 0
    /\ report' = ReportNew
    /\ pc' = "async_run"
    /\ UNCHANGED <<tree, num_workers, syncVars, async_result, offPipe, runVars>>

ProducerHas(r, files) ==
    producers' = [producers EXCEPT ![r] =
                    [pc |-> IF files = <<>> THEN "done" ELSE "send", files |-> files]]

\* produce_files: the walk in spawn_blocking; a producer with nothing to send ends.
ProducerWalk(r) ==
    /\ r \in DOMAIN producers
    /\ producers[r].pc = "walk"
    /\ ProducerHas(r, WalkDir(PipeConfig.paths[r], tree[r], PipeConfig))
    /\ UNCHANGED <<tree, num_workers, pc, syncVars, chan, sent, tasks, consumer, permits,
                   mutex, report, async_result, offPipe, runVars>>

\* tx.send(file_path).await: waits for room; Err once the receiver is dropped,
\* and then the producer stops. After its last send the producer ends.
ProducerSend(r) ==
    /\ r \in DOMAIN producers
    /\ producers[r].pc = "send"
    /\ IF consumer = "done"
       THEN /\ producers' = [producers EXCEPT ![r] = [pc |-> "done", files |-> <<>>]]
            /\ UNCHANGED <<chan, sent>>
       ELSE /\ Len(chan) < Capacity(num_workers)
            /\ chan' = Append(chan, Head(producers[r].files))
            /\ sent' = sent \cup {Head(producers[r].files)}
            /\ producers' = [producers EXCEPT ![r] =
                                [pc |-> IF Len(producers[r].files) = 1 THEN "done" ELSE "send",
                                 files |-> Tail(producers[r].files)]]
    /\ UNCHANGED <<tree, num_workers, pc, syncVars, tasks, consumer, permits, mutex, report,
                   async_result, offPipe, runVars>>

\* stream.recv() returns Some(file_path): the per-file task is spawned.
ConsumerRecv ==
    /\ consumer = "recv"
    /\ chan # <<>>
    /\ chan' = Tail(chan)
    /\ tasks' = Append(tasks, [path |-> Head(chan), pc |-> "spawned", guard |-> ReportNew])
    /\ UNCHANGED <<tree, num_workers, pc, syncVars, producers, sent, consumer, permits, mutex,
                   report, async_result, offPipe, runVars>>

\* stream.recv() returns None: the loop ends and join_all(handles) starts.
ConsumerEnd ==
    /\ consumer = "recv"
    /\ chan = <<>>
    /\ ChannelClosed(producers)
    /\ consumer' = "join"
    /\ UNCHANGED <<tree, num_workers, pc, syncVars, producers, chan, sent, tasks, permits,
                   mutex, report, async_result, offPipe, runVars>>

\* A consumer that ends without joining its per-file tasks.
AllJoinedNoWait(ts) == TRUE

\* join_all(handles).await completes: every per-file task has ended.
AllJoined(ts) == \A t \in DOMAIN ts : ts[t].pc = "done"

\* join_all(handles) completes; the consumer task ends and drops the receiver.
ConsumerJoined ==
    /\ consumer = "join"
    /\ AllJoined(tasks)
    /\ consumer' = "done"
    /\ UNCHANGED <<tree, num_workers, pc, syncVars, producers, chan, sent, tasks, permits,
                   mutex, report, async_result, offPipe, runVars>>

\* permit.acquire().await, then count_async starts in spawn_blocking.
TaskAcquire(t) ==
    /\ t \in DOMAIN tasks
    /\ tasks[t].pc = "spawned"
    /\ PermitAvailable(permits)
    /\ permits' = permits - 1
    /\ tasks' = [tasks EXCEPT ![t].pc = "counting"]
    /\ UNCHANGED <<tree, num_workers, pc, syncVars, producers, chan, sent, consumer, mutex,
                   report, async_result, offPipe, runVars>>

TaskGoes(t, next) ==
    /\ tasks' = [tasks EXCEPT ![t].pc = next]
    /\ permits' = IF next = "done" THEN permits + 1 ELSE permits

\* count_async returns. Ok(stat): the task goes for the mutex. BinaryFile or
\* another error: it is logged, the task ends and its permit is dropped.
TaskCounted(t) ==
    /\ t \in DOMAIN tasks
    /\ tasks[t].pc = "counting"
    /\ TaskGoes(t, TaskOutcome(CountPath(tasks[t].path)))
    /\ UNCHANGED <<tree, num_workers, pc, syncVars, producers, chan, sent, consumer, mutex,
                   report, async_result, offPipe, runVars>>

\* A Mutex whose lock() never waits.
MutexFreeAlways(holder) == TRUE

\* Mutex::lock can complete: no task holds a guard.
MutexFree(holder) == holder = 0

\* report.lock().await: the task gets the guard, through which it sees the
\* Report as it is now.
TaskLock(t) ==
    /\ t \in DOMAIN tasks
    /\ tasks[t].pc = "locking"
    /\ MutexFree(mutex)
    /\ mutex' = t
    /\ tasks' = [tasks EXCEPT ![t] = [@ EXCEPT !.pc = "merging", !.guard = report]]
    /\ UNCHANGED <<tree, num_workers, pc, syncVars, producers, chan, sent, consumer, permits,
                   report, async_result, offPipe, runVars>>

\* report_guard.add(stat): the sums of the Report the guard gave access to are
\* written back; the guard, then the permit, are dropped; the task ends.
TaskMerge(t) ==
    /\ t \in DOMAIN tasks
    /\ tasks[t].pc = "merging"
    /\ report' = ReportAdd(tasks[t].guard, CountPath(tasks[t].path).stat)
    /\ mutex' = 0
    /\ permits' = permits + 1
    /\ tasks' = [tasks EXCEPT ![t] = [@ EXCEPT !.pc = "done", !.guard = ReportNew]]
    /\ UNCHANGED <<tree, num_workers, pc, syncVars, producers, chan, sent, consumer,
                   async_result, offPipe, runVars>>

\* join_all(producer_handles) and consumer_handle are done; Arc::try_unwrap.
AsyncReturn ==
    /\ pc = "async_run"
    /\ \A r \in DOMAIN producers : producers[r].pc = "done"
    /\ consumer = "done"
    /\ async_result' = IF StrongCount(consumer, tasks) = 1
                       THEN [kind |-> "Ok", report |-> report]
                       ELSE [kind |-> "Err", msg |-> <<"Failed to unwrap Arc">>]
    /\ pc' = "done"
    /\ UNCHANGED <<tree, num_workers, syncVars, producers, chan, sent, tasks, consumer,
                   permits, mutex, report, offPipe, runVars>>

(***************************************************************************)
(* Spec: both pipelines over one drawn tree                                *)
(***************************************************************************)
MaxEntries == 3

MaxWorkers == 2

\* Sequences of distinct elements of S, of length at most n.
DistinctSeqs(S, n) ==
    {q \in SeqsUpTo(S, n) : \A i, j \in DOMAIN q : i # j => q[i] # q[j]}

Trees ==
    {<<t1, t2>> : t1 \in DistinctSeqs(PipeEntries(1), MaxEntries),
                  t2 \in DistinctSeqs(PipeEntries(2), MaxEntries)}

\* The state before FileCounter::process starts, over a tree of at most n entries.
PipeInit(n) ==
    /\ tree \in {t \in Trees : Len(t[1]) + Len(t[2]) <= n}
    /\ num_workers \in 1..MaxWorkers
    /\ pc = "sync_walk"
    /\ all_files = <<>>
    /\ results = <<>>
    /\ drained = 0
    /\ sync_report = ReportNew
    /\ sync_result = NoResult
    /\ producers = <<>>
    /\ chan = <<>>
    /\ sent = {}
    /\ tasks = <<>>
    /\ consumer = "idle"
    /\ permits = 0
    /\ mutex = 0
    /\ report = ReportNew
    /\ async_result = NoResult
    /\ run = 1
    /\ first_run = NoResult
    /\ StatsIdle
    /\ LexIdle
    /\ ScanIdle
    /\ CallsIdle

Init == PipeInit(MaxEntries)

Next ==
    \/ SyncWalk
    \/ \E i \in 1..MaxEntries + 1 : SyncTaskStart(i)
    \/ \E i \in 1..MaxEntries + 1 : SyncTaskDone(i)
    \/ SyncCollected
    \/ SyncDrain
    \/ SyncReturn
    \/ AsyncStart
    \/ \E r \in DOMAIN Paths : ProducerWalk(r)
    \/ \E r \in DOMAIN Paths : ProducerSend(r)
    \/ ConsumerRecv
    \/ ConsumerEnd
    \/ ConsumerJoined
    \/ \E t \in 1..MaxEntries + 1 : TaskAcquire(t)
    \/ \E t \in 1..MaxEntries + 1 : TaskCounted(t)
    \/ \E t \in 1..MaxEntries + 1 : TaskLock(t)
    \/ \E t \in 1..MaxEntries + 1 : TaskMerge(t)
    \/ AsyncReturn

Spec == Init /\ [][Next]_vars

(***************************************************************************)
(* SpecTwice: the two pipelines run a second time over the same tree       *)
(***************************************************************************)
MaxRerunEntries == 2

\* What a run hands to its caller: the totals of the Report, or the error.
Returned(res) ==
    IF res.kind = "Ok" THEN [kind |-> "Ok", totals |-> Totals(res.report)] ELSE res

\* Both process calls have returned and are called again on the unmodified
\* tree: each builds its Report, channel, semaphore and tasks anew.
Rerun ==
    /\ pc = "done"
    /\ run = 1
    /\ run' = 2
    /\ first_run' = [sync |-> Returned(sync_result), async |-> Returned(async_result),
                     order |-> [t \in DOMAIN tasks |-> tasks[t].path]]
    /\ pc' = "sync_walk"
    /\ all_files' = <<>>
    /\ results' = <<>>
    /\ drained' = 0
    /\ sync_report' = ReportNew
    /\ sync_result' = NoResult
    /\ producers' = <<>>
    /\ chan' = <<>>
    /\ sent' = {}
    /\ tasks' = <<>>
    /\ consumer' = "idle"
    /\ permits' = 0
    /\ mutex' = 0
    /\ report' = ReportNew
    /\ async_result' = NoResult
    /\ UNCHANGED <<tree, num_workers, offPipe>>

InitTwice == PipeInit(MaxRerunEntries)

NextTwice ==
    \/ Next
    \/ Rerun

SpecTwice == InitTwice /\ [][NextTwice]_vars

(***************************************************************************)
(* SpecAsync: AsyncFileCounter::process alone, over zero, one or two roots, *)
(* every spawned task scheduled as long as it can run                      *)
(***************************************************************************)
MaxLiveEntries == 2

\* The trees of config.paths = [], [1] and [1, 2].
LiveTrees ==
    {<<>>}
    \cup {<<t1>> : t1 \in DistinctSeqs(PipeEntries(1), MaxLiveEntries)}
    \cup {t \in Trees : Len(t[1]) + Len(t[2]) <= MaxLiveEntries}

\* AsyncFileCounter::process is called on a new counter.
AsyncInit ==
    /\ tree \in LiveTrees
    /\ num_workers \in 1..MaxWorkers
    /\ pc = "async_start"
    /\ all_files = <<>>
    /\ results = <<>>
    /\ drained = 0
    /\ sync_report = ReportNew
    /\ sync_result = NoResult
    /\ producers = <<>>
    /\ chan = <<>>
    /\ sent = {}
    /\ tasks = <<>>
    /\ consumer = "idle"
    /\ permits = 0
    /\ mutex = 0
    /\ report = ReportNew
    /\ async_result = NoResult
    /\ run = 1
    /\ first_run = NoResult
    /\ StatsIdle
    /\ LexIdle
    /\ ScanIdle
    /\ CallsIdle

AsyncNext ==
    \/ AsyncStart
    \/ \E r \in DOMAIN Paths : ProducerWalk(r)
    \/ \E r \in DOMAIN Paths : ProducerSend(r)
    \/ ConsumerRecv
    \/ ConsumerEnd
    \/ ConsumerJoined
    \/ \E t \in 1..MaxLiveEntries : TaskAcquire(t)
    \/ \E t \in 1..MaxLiveEntries : TaskCounted(t)
    \/ \E t \in 1..MaxLiveEntries : TaskLock(t)
    \/ \E t \in 1..MaxLiveEntries : TaskMerge(t)
    \/ AsyncReturn

\* The runtime polls every task that is ready: a step stays possible only
\* until one is taken.
SpecAsync == AsyncInit /\ [][AsyncNext]_vars /\ WF_vars(AsyncNext)


(***************************************************************************)
(* SpecBuild: an AsyncFileCounter is constructed, its worker count is set  *)
(* any number of times, and process is entered                             *)
(***************************************************************************)
MaxCpus == 2

\* AsyncFileCounter::new: config.num_workers when positive, else num_cpus::get().
NewWorkers(config_workers, cpus) ==
    IF config_workers > 0 THEN config_workers ELSE cpus

\* No AsyncFileCounter exists yet.
BuildInit ==
    /\ tree \in LiveTrees
    /\ num_workers = 0
    /\ pc = "new"
    /\ all_files = <<>>
    /\ results = <<>>
    /\ drained = 0
    /\ sync_report = ReportNew
    /\ sync_result = NoResult
    /\ producers = <<>>
    /\ chan = <<>>
    /\ sent = {}
    /\ tasks = <<>>
    /\ consumer = "idle"
    /\ permits = 0
    /\ mutex = 0
    /\ report = ReportNew
    /\ async_result = NoResult
    /\ run = 1
    /\ first_run = NoResult
    /\ StatsIdle
    /\ LexIdle
    /\ ScanIdle
    /\ CallsIdle

\* AsyncFileCounter::new(config) on a host of cpus logical cores.
AsyncFileCounterNew(config_workers, cpus) ==
    /\ pc = "new"
    /\ num_workers' = NewWorkers(config_workers, cpus)
    /\ pc' = "built"
    /\ UNCHANGED <<tree, syncVars, asyncVars, offPipe, runVars>>

\* with_workers(n): the field is set to n as it is.
WithWorkers(n) ==
    /\ pc = "built"
    /\ num_workers' = n
    /\ UNCHANGED <<tree, pc, syncVars, asyncVars, offPipe, runVars>>

\* process is called.
ProcessEnter ==
    /\ pc = "built"
    /\ pc' = "async_start"
    /\ UNCHANGED <<tree, num_workers, syncVars, asyncVars, offPipe, runVars>>

\* mpsc::channel(0): the call panics and process never returns.
AsyncStartPanics ==
    /\ pc = "async_start"
    /\ Capacity(num_workers) = 0
    /\ pc' = "panicked"
    /\ UNCHANGED <<tree, num_workers, syncVars, asyncVars, offPipe, runVars>>

BuildNext ==
    \/ \E c \in 0..MaxWorkers, cpus \in 1..MaxCpus : AsyncFileCounterNew(c, cpus)
    \/ \E n \in 0..MaxWorkers : WithWorkers(n)
    \/ ProcessEnter
    \/ AsyncStartPanics
    \/ AsyncStart

SpecBuild == BuildInit /\ [][BuildNext]_vars


(***************************************************************************)
(* Properties                                                              *)
(***************************************************************************)
\* The paths discovery yields for the tree, in submission order.
Discovered == CollectFiles(PipeConfig.paths, tree)

\* Whether Counter::count fails on the path with an error other than BinaryFile.
FailsHard(path) == ~CountPath(path).ok /\ CountPath(path).err # "BinaryFile"

\* Whether a NUL byte lies among the first 1024 bytes of an openable file.
HasEarlyNul(path) ==
    /\ Disk[path[2]].openable
    /\ Disk[path[2]].nul # NoNul
    /\ Disk[path[2]].nul < 1024

\* The paths of the per-file lists of a Report.
MergedPaths(rep) == UNION {{rep[l].stats[i].path : i \in DOMAIN rep[l].stats} : l \in DOMAIN rep}

\* How many FileStat a Report holds.
RECURSIVE SumFiles(_, _)
SumFiles(rep, ls) ==
    IF ls = {} THEN 0
    ELSE LET l == CHOOSE x \in ls : TRUE
         IN rep[l].files + SumFiles(rep, ls \ {l})

\* The FileStat of the discovered paths Counter::count succeeds on, in order.
RECURSIVE OkStats(_)
OkStats(paths) ==
    IF paths = <<>> THEN <<>>
    ELSE IF CountPath(Head(paths)).ok
    THEN <<CountPath(Head(paths)).stat>> \o OkStats(Tail(paths))
    ELSE OkStats(Tail(paths))

\* C1: every FileStat a lexer (DefaultLexer, PythonLexer, MdLexer) builds
\* satisfies lines = blanks + comments + code, after every processed line.
C1_LinesArePartitioned ==
    lexPc # "idle" => stat.lines = stat.blanks + stat.comments + stat.code

C3_AddOrderIndependent ==
    (statsPc # "idle" /\ processed = DOMAIN input) =>
        Totals(whole) = Totals(FoldAdd(ReportNew, input))

\* All files added, two of one language with different counters, and the
\* per-file list of that language not in list order.
C3_Witness ==
    /\ statsPc = "adding"
    /\ processed = DOMAIN input
    /\ Len(input) = 3
    /\ DOMAIN whole = {"Rust", "Javascript"}
    /\ Len(whole["Rust"].stats) = 2
    /\ whole["Rust"].stats[1].lines # whole["Rust"].stats[2].lines
    /\ whole["Rust"].stats # FoldAdd(ReportNew, input)["Rust"].stats

\* C4: the per-subset LangStat of a partition, combined with LangStat::add,
\* equal in every aggregate field the LangStat of the whole list.
C4_PartitionSumsToWhole ==
    statsPc = "combined" =>
        \A l \in DOMAIN whole : TotalsOf(merged[l]) = TotalsOf(whole[l])

\* C5: in sync mode, when some discovered file fails with an IoError or
\* LexError, process returns Err carrying the error of the first such file in
\* submission order (and no Report), whatever the order the workers finished in;
\* with no such file it returns Ok.
C5_FirstErrorInSubmissionOrder ==
    sync_result.kind # "none" =>
        IF \E i \in DOMAIN all_files : FailsHard(all_files[i])
        THEN LET first == CHOOSE i \in DOMAIN all_files :
                            /\ FailsHard(all_files[i])
                            /\ \A j \in 1..(i - 1) : ~FailsHard(all_files[j])
             IN sync_result = [kind |-> "Err",
                               msg |-> <<"Failed to count file", all_files[first],
                                         CountPath(all_files[first]).err>>]
        ELSE sync_result.kind = "Ok"

\* Two failing files under different roots, a file counted before them, and
\* the error returned.
C5_Witness ==
    /\ sync_result.kind = "Err"
    /\ Len(all_files) = 3
    /\ ~FailsHard(all_files[1])
    /\ FailsHard(all_files[2])
    /\ FailsHard(all_files[3])
    /\ sync_result.msg[2] = all_files[2]

\* C6: in async mode a per-file IoError or LexError does not abort the run:
\* process returns Ok and the Report holds exactly the files Counter::count
\* succeeded on, with their totals, and nothing of the failing file.
C6_AsyncContinuesAfterFileError ==
    async_result.kind # "none" =>
        /\ async_result.kind = "Ok"
        /\ MergedPaths(async_result.report) =
                {Discovered[i] : i \in {j \in DOMAIN Discovered : CountPath(Discovered[j]).ok}}
        /\ Totals(async_result.report) = Totals(FoldAdd(ReportNew, OkStats(Discovered)))

C6_Witness ==
    /\ async_result.kind = "Ok"
    /\ \E i \in DOMAIN Discovered : FailsHard(Discovered[i])
    /\ \E i \in DOMAIN Discovered : CountPath(Discovered[i]).ok
    /\ MergedPaths(async_result.report) # {}

\* C7: a file with a NUL byte among its first 1024 bytes makes Counter::count
\* return BinaryFile; in both modes it adds nothing to the Report, not even to
\* the files count, and the run does not abort because of it.
C7_BinaryFileSkipped ==
    pc = "done" =>
        \A i \in DOMAIN Discovered :
            HasEarlyNul(Discovered[i]) =>
                /\ CountPath(Discovered[i]) = CounterError("BinaryFile")
                /\ Discovered[i] \notin MergedPaths(sync_report)
                /\ Discovered[i] \notin MergedPaths(report)
                /\ SumFiles(sync_report, DOMAIN sync_report)
                        = Cardinality(MergedPaths(sync_report))
                /\ SumFiles(report, DOMAIN report) = Cardinality(MergedPaths(report))
                /\ async_result.kind = "Ok"
                /\ (\A j \in DOMAIN Discovered : ~FailsHard(Discovered[j]))
                        => sync_result.kind = "Ok"

C7_Witness ==
    /\ pc = "done"
    /\ Len(Discovered) = 3
    /\ HasEarlyNul(Discovered[1])
    /\ sync_result.kind = "Ok"
    /\ async_result.kind = "Ok"
    /\ SumFiles(report, DOMAIN report) = 2

\* Whether WalkDir meets a directory it cannot read beneath some root.
HasWalkError == \E r \in DOMAIN tree : \E i \in DOMAIN tree[r] : ~tree[r][i].ok

\* C8 as stated: a directory that cannot be read aborts the run in both modes.
C8_WalkErrorAborts ==
    (pc = "done" /\ HasWalkError) =>
        sync_result.kind = "Err" /\ async_result.kind = "Err"

\* C8 amended: a directory that cannot be read aborts neither run: walk_dir
\* drops the failed entry and returns Ok with every file of the readable
\* entries, so the async run returns Ok, the sync run returns Ok unless a
\* file fails with an IoError or LexError, and both count the files of the
\* readable entries.
C8_WalkErrorSkipped ==
    (pc = "done" /\ HasWalkError) =>
        /\ Range(all_files) =
                UNION {{<<r, tree[r][i].name>> : i \in {j \in DOMAIN tree[r] : tree[r][j].ok}} :
                        r \in DOMAIN tree}
        /\ sent = Range(all_files)
        /\ async_result.kind = "Ok"
        /\ (\A i \in DOMAIN all_files : ~FailsHard(all_files[i])) => sync_result.kind = "Ok"

\* The unreadable directory comes first under root 1, files follow it.
C8_Witness ==
    /\ pc = "done"
    /\ Len(tree[1]) = 2
    /\ ~tree[1][1].ok
    /\ Len(all_files) = 2
    /\ sync_result.kind = "Ok"
    /\ async_result.kind = "Ok"
    /\ SumFiles(report, DOMAIN report) = 2

\* When process has returned Ok, nothing of the run is left.
AsyncDrained ==
    async_result.kind = "Ok" =>
        /\ chan = <<>>
        /\ \A p \in sent : \E t \in DOMAIN tasks : tasks[t].path = p /\ tasks[t].pc = "done"
        /\ \A t \in DOMAIN tasks : tasks[t].pc = "done"
        /\ mutex = 0
        /\ async_result.report = report

\* C9: when AsyncFileCounter::process returns Ok, every path a producer sent
\* has had its per-file task finish, no task holds the Report any more, and
\* the Report is not added to after the return.
C9_ReportHandedOverComplete ==
    /\ []AsyncDrained
    /\ [][async_result.kind = "Ok" => report' = report]_vars

C9_Witness ==
    /\ async_result.kind = "Ok"
    /\ Cardinality(sent) = 3
    /\ SumFiles(report, DOMAIN report) = 2
    /\ num_workers = 1

\* C10: in async mode at most num_workers Counter invocations are in progress
\* at any time: a task counts only while it holds a permit, and the permits
\* out are exactly those of the tasks between acquire and their end.
C10_CountsBoundedByWorkers ==
    pc \in {"async_run", "done"} =>
        /\ Cardinality({t \in DOMAIN tasks : tasks[t].pc = "counting"}) <= num_workers
        /\ Cardinality({t \in DOMAIN tasks : tasks[t].pc \in {"counting", "locking", "merging"}})
                = num_workers - permits

\* Every permit is out, all of them counting, and another task waits.
C10_Witness ==
    /\ num_workers = 2
    /\ permits = 0
    /\ Cardinality({t \in DOMAIN tasks : tasks[t].pc = "counting"}) = 2
    /\ \E t \in DOMAIN tasks : tasks[t].pc = "spawned"

\* C11: running the sync and the async pipeline a second time over the same
\* unmodified tree returns the same totals (or the same error) as the first
\* time, whatever the schedule of workers, producers and tasks in either run.
C11_SecondRunSameTotals ==
    (run = 2 /\ pc = "done") =>
        /\ Returned(sync_result) = first_run.sync
        /\ Returned(async_result) = first_run.async

\* Two files counted in both runs, the per-file tasks spawned in another
\* order the second time.
C11_Witness ==
    /\ run = 2
    /\ pc = "done"
    /\ num_workers = 2
    /\ sync_result.kind = "Ok"
    /\ async_result.kind = "Ok"
    /\ SumFiles(report, DOMAIN report) = 2
    /\ [t \in DOMAIN tasks |-> tasks[t].path] # first_run.order

\* How often a path occurs in the per-file lists of a Report.
RECURSIVE Occurrences(_, _, _)
Occurrences(rep, ls, path) ==
    IF ls = {} THEN 0
    ELSE LET l == CHOOSE x \in ls : TRUE
         IN Cardinality({i \in DOMAIN rep[l].stats : rep[l].stats[i].path = path})
                + Occurrences(rep, ls \ {l}, path)

\* How many elements of a sequence equal x.
CountIn(q, x) == Cardinality({i \in DOMAIN q : q[i] = x})

\* C12: every discovered path occurrence goes to exactly one Counter
\* invocation and every resulting FileStat is merged exactly once: a sent path
\* is either in the channel or the path of one per-file task, a path is in the
\* async Report once when its task has merged and not at all otherwise, and a
\* run that returns Ok has as many files as discovered paths that counted.
C12_EachPathCountedAndMergedOnce ==
    /\ pc \in {"async_run", "done"} =>
            \A i \in DOMAIN Discovered :
                LET path == Discovered[i]
                    inTasks == Cardinality({t \in DOMAIN tasks : tasks[t].path = path})
                IN /\ CountIn(chan, path) + inTasks = (IF path \in sent THEN 1 ELSE 0)
                   /\ Occurrences(report, DOMAIN report, path) =
                        (IF \E t \in DOMAIN tasks : tasks[t].path = path /\ tasks[t].pc = "done"
                                                        /\ CountPath(path).ok
                         THEN 1 ELSE 0)
    /\ async_result.kind = "Ok" =>
            SumFiles(async_result.report, DOMAIN async_result.report)
                = Len(OkStats(Discovered))
    /\ sync_result.kind = "Ok" =>
            /\ SumFiles(sync_result.report, DOMAIN sync_result.report)
                    = Len(OkStats(Discovered))
            /\ \A i \in DOMAIN Discovered :
                    Occurrences(sync_result.report, DOMAIN sync_result.report, Discovered[i])
                        = (IF CountPath(Discovered[i]).ok THEN 1 ELSE 0)

\* Three paths discovered under two roots, one of them binary, both runs Ok
\* with the two others merged.
C12_Witness ==
    /\ pc = "done"
    /\ Len(Discovered) = 3
    /\ Len(tree[2]) > 0
    /\ sync_result.kind = "Ok"
    /\ async_result.kind = "Ok"
    /\ Len(OkStats(Discovered)) = 2
    /\ SumFiles(async_result.report, DOMAIN async_result.report) = 2

\* The FileStat of lexing the lines alone, from fresh state.
LexAlone(strategy, lines) ==
    IF strategy = "Python"
    THEN PythonLexLoop(lines, FileStatDefault, LexCtxDefault, PyCtxDefault, PY_DEF)
    ELSE DefaultLexLoop(lines, FileStatDefault, LexCtxDefault, FnCtxDefault, C_DEF)

\* C13: the FileStat a lex call builds is that of its own lines alone,
\* whatever files the same thread lexed before (one ending inside a block
\* comment, a docstring or a function included) and whatever another thread
\* is lexing at the same time.
C13_StatOfOwnLinesOnly ==
    \A k \in DOMAIN scans :
        scans[k].calls > 0 => scans[k].stat = LexAlone(scans[k].lexer, scans[k].scanned)

\* Scanner 1 is in a second call after a file that ended inside an open
\* construct and has counted a line of code, while scanner 2 is inside a
\* block comment or docstring of its own file.
C13_Witness ==
    /\ scans # <<>>
    /\ scans[1].calls = 2
    /\ scans[1].after_open
    /\ scans[1].stat.code = 1
    /\ scans[2].pc = "lexing"
    /\ scans[2].ctx.in_block_comment \/ scans[2].ctx.in_string

\* C14: with the DefaultLexer, functions counts every line from a line whose
\* code matches a signature through the line on which the brace depth is back
\* at 0, blank and comment lines between them included, and no line after it
\* until the next signature; a signature inside a function resets nothing.
C14_FunctionsFollowBraceExtent ==
    lexer = "Default" => stat.functions = expected.functions

\* C15: classes counts the Code and Mixed lines whose code matches the class
\* pattern of the language, once each.
C15_ClassesCountMatches ==
    lexer \in {"Default", "Python"} => stat.classes = expected.classes

\* The columns of the leading whitespace of a line: a tab is 4 columns, any
\* other whitespace character 1.
RECURSIVE Columns(_)
Columns(line) ==
    IF line = <<>> \/ Head(line) \notin Ws THEN 0
    ELSE (IF Head(line) = "\t" THEN 4 ELSE 1) + Columns(Tail(line))

\* The step reads one more line of a Python file.
PythonLineRead == lexer = "Python" /\ stat'.lines = stat.lines + 1

\* The line read by the step matches a function-signature pattern.
SignatureRead == PythonIsDef(Trim(lastLine'), lastKind', PY_DEF)

\* Function mode and its base_indent once the deferred entry has been made.
ModeAtLine == py.in_fn \/ py.fn_def_line
BaseAtLine == IF py.fn_def_line THEN Columns(lastLine) ELSE py.base_indent

\* What the indentation policy adds to functions for a line of code.
PolicyCredit ==
    (IF SignatureRead THEN 1 ELSE 0)
    + (IF ModeAtLine /\ Columns(lastLine') > BaseAtLine THEN 1 ELSE 0)

\* C16: with the PythonLexer a signature match credits the signature line and
\* defers entry; on the next line function mode is entered with base_indent
\* the signature line's indentation (tab 4 columns, other whitespace 1); a
\* later line that is neither blank nor comment-only leaves function mode
\* uncredited when its indentation is <= base_indent and is credited otherwise.
C16_IndentationPolicy ==
    [][PythonLineRead =>
        /\ SignatureRead => py'.fn_def_line /\ stat'.functions >= stat.functions + 1
        /\ py.fn_def_line => py'.base_indent = Columns(lastLine)
        /\ py.fn_def_line /\ Trim(lastLine') = <<>> => py'.in_fn
        /\ lastKind'.kind \in {"Code", "Mixed"} =>
              /\ stat'.functions = stat.functions + PolicyCredit
              /\ py'.in_fn = (ModeAtLine /\ Columns(lastLine') > BaseAtLine)
              /\ py'.base_indent = BaseAtLine]_vars

\* A body line indented by a tab is credited under a signature indented by a
\* space.
C16_Witness ==
    /\ lexer = "Python"
    /\ lastLine = <<"\t", "x">>
    /\ py.in_fn /\ py.base_indent = 1
    /\ stat.functions = 2 /\ stat.lines = 2

\* The stages of Counter::count give what Counter::count gives as a whole.
CountStagesAgree ==
    counting.pc = "done" =>
        counting.result = CountAs(counting.path, counting.file, counting.lang_type)

\* The file has a NUL byte among its first min(1024, size) bytes.
NulSniffed(file) ==
    file.nul # NoNul /\ file.nul < SniffLen /\ file.nul < file.size

EntryAt(comps) == {i \in DOMAIN walk.entries : walk.entries[i].comps = comps}

\* text ends with pat, character by character.
TextEndsWith(text, pat) ==
    Len(pat) <= Len(text) /\ OccursAt(text, pat, Len(text) - Len(pat))

\* str::to_lowercase of a language or type name.
NameLower(name) ==
    CASE name = "C" -> "c"
      [] name = "Python" -> "python"
      [] name = "Markdown" -> "markdown"
      [] OTHER -> name

\* types contains the name of lang under case-insensitive comparison.
Enabled(types, lang) == \E t \in types : NameLower(t) = NameLower(lang)

\* C18: every path walk_dir returns is a non-directory entry, has no
\* component starting with '.', neither ends with nor contains a non-empty
\* exclude pattern, and has an extension that resolves to a known language
\* enabled in config.types; whatever fails this, a file without extension
\* included, is dropped and the walk still returns Ok.
C18_WalkedPathsPassEveryFilter ==
    walk.pc \in {"walking", "done"} =>
        /\ \A k \in DOMAIN walk.files :
              LET f == walk.files[k]
              IN /\ \A i \in EntryAt(f) : walk.entries[i].ok /\ ~walk.entries[i].is_dir
                 /\ \A i \in DOMAIN f : f[i][1] # "."
                 /\ \A excl \in walk.config.exclude_files \ {<<>>} :
                       /\ ~TextEndsWith(PathStr(f), excl)
                       /\ \A p \in 0..Len(PathStr(f)) : ~OccursAt(PathStr(f), excl, p)
                 /\ Extension(f[Len(f)]) # None
                 /\ LangOfExt(Extension(f[Len(f)])) # "Unknown"
                 /\ Enabled(walk.config.types, LangOfExt(Extension(f[Len(f)])))
        /\ walk.pc = "done" => walk.result.kind = "Ok" /\ walk.result.files = walk.files

\* A walk of p that excludes "rc/a" has returned p/a.c and p/b.py and nothing
\* else, having met a hidden file, a hidden directory, a file without
\* extension and a directory it could not read.
C18_Witness ==
    /\ walk.pc = "done"
    /\ walk.config.exclude_files = {Chars("rc/a")}
    /\ walk.config.types = {"c", "python"}
    /\ walk.files = << <<Chars("p"), Chars("a.c")>>, <<Chars("p"), Chars("A.C")>>,
                        <<Chars("p"), Chars("b.py")>> >>

\* The ok, non-directory entries of the walked tree that are neither hidden
\* nor excluded and whose extension resolves to a known language.
Candidates ==
    {i \in DOMAIN walk.entries :
        /\ walk.entries[i].ok /\ ~walk.entries[i].is_dir
        /\ \A k \in DOMAIN walk.entries[i].comps : walk.entries[i].comps[k][1] # "."
        /\ \A excl \in walk.config.exclude_files : ~Excluded(walk.entries[i].comps, excl)
        /\ Extension(walk.entries[i].comps[Len(walk.entries[i].comps)]) # None
        /\ LangOfExt(Extension(walk.entries[i].comps[Len(walk.entries[i].comps)])) # "Unknown"}

WalkReturned(comps) == \E k \in DOMAIN walk.files : walk.files[k] = comps

\* C19: a file whose extension resolves to language L is returned by the walk
\* iff config.types contains the name of L under case-insensitive comparison;
\* the types of Config::new enable every supported language.
C19_TypesMatchCaseInsensitively ==
    walk.pc = "done" =>
        \A i \in Candidates :
            WalkReturned(walk.entries[i].comps)
            <=> Enabled(walk.config.types,
                        LangOfExt(Extension(walk.entries[i].comps[Len(walk.entries[i].comps)])))

\* The call is one of those the interface answers with an error.
FfiFaulty(call) ==
    \/ call.ptr = "null"
    \/ ~call.utf8
    \/ ~call.json
    \/ call.analysis.kind \in {"Err", "panic", "no_runtime"}

\* C20: analyze_code always returns a non-null payload and lets no fault out:
\* for a null pointer, input that is not UTF-8 or not JSON, a pipeline that
\* fails (the async runtime failing to start included) or a panic in the
\* analysis, success is false with an error message, no languages and zero
\* totals; otherwise success is true with no error message.
C20_AnalyzeCodeAlwaysAnswers ==
    /\ ffi.pc \in {"idle", "check_null", "to_str", "from_str", "analyse", "to_string",
                    "unwound", "returned"}
    /\ ffi.pc = "returned" =>
          /\ ~ffi.returned.null
          /\ IF FfiFaulty(ffi.input)
             THEN /\ ~ffi.returned.json.success
                  /\ ffi.returned.json.error # NoName
                  /\ ffi.returned.json.languages = <<>>
                  /\ ffi.returned.json.total = TotalsZero
             ELSE /\ ffi.returned.json.success
                  /\ ffi.returned.json.error = NoName

\* A panic in the analysis has been turned into the error payload.
C20_Witness ==
    /\ ffi.pc = "returned"
    /\ ffi.input.ptr = "bytes" /\ ffi.input.utf8 /\ ffi.input.json
    /\ ffi.input.analysis.kind = "panic"
    /\ ffi.returned = CreateErrorResponse("Panic occurred during analysis")

\* The counters of a FileStat.
Counters(st) ==
    [lines |-> st.lines, blanks |-> st.blanks, comments |-> st.comments,
     code |-> st.code, functions |-> st.functions]

\* The scenario has lexed the whole text of its test.
WholeText(strategy) ==
    /\ scenario.pc = "done"
    /\ scenario.lexer = strategy
    /\ scenario.start = 1

\* C21: DefaultLexer for C over the 13 lines of count_simple_c_like yields
\* lines 13, blanks 3, comments 4, code 6 and functions 5.
C21_CLikeScenario ==
    WholeText("Default") =>
        Counters(scenario.stat)
        = [lines |-> 13, blanks |-> 3, comments |-> 4, code |-> 6, functions |-> 5]

C21_Witness ==
    /\ WholeText("Default")
    /\ Len(scenario.lines) = 13
    /\ scenario.stat.lines = 13

C23_EmptyInputAllZero ==
    scenario.pc = "done" /\ scenario.start = Len(scenario.lines) + 1 =>
        /\ Counters(scenario.stat)
           = [lines |-> 0, blanks |-> 0, comments |-> 0, code |-> 0, functions |-> 0]
        /\ scenario.stat.classes = 0

\* MdLexer has returned from an input of zero lines.
C23_Witness ==
    /\ scenario.pc = "done"
    /\ scenario.lexer = "Md"
    /\ scenario.start = Len(scenario.lines) + 1
    /\ scenario.stat.lines = 0

\* How often ch occurs in s.
RECURSIVE CountOf(_, _)
CountOf(s, ch) ==
    IF s = <<>> THEN 0 ELSE (IF Head(s) = ch THEN 1 ELSE 0) + CountOf(Tail(s), ch)

\* How often a token names the argument: its long flag once, its short flag
\* once per appearance in a short group.
FlagsIn(token, arg) ==
    IF StartsWith(token, <<"-", "-">>)
    THEN (IF SliceFrom(token, 2) = arg.long THEN 1 ELSE 0)
    ELSE IF StartsWith(token, <<"-">>) THEN CountOf(SliceFrom(token, 1), arg.short)
    ELSE 0

RECURSIVE FlagOccurrences(_, _)
FlagOccurrences(argv, arg) ==
    IF argv = <<>> THEN 0 ELSE FlagsIn(Head(argv), arg) + FlagOccurrences(Tail(argv), arg)

\* The values a command line supplies to the argument: the token behind each
\* token that names it, in command-line order.
RECURSIVE SuppliedValues(_, _)
SuppliedValues(argv, arg) ==
    IF Len(argv) < 2 THEN <<>>
    ELSE (IF FlagsIn(argv[1], arg) > 0 /\ ~StartsWith(argv[2], <<"-">>)
          THEN <<argv[2]>> ELSE <<>>)
         \o SuppliedValues(Tail(argv), arg)

ParsedOk == parse.pc = "done" /\ parse.result = "Ok"

\* C24: when build_matches returns Ok, an Append argument holds exactly the
\* values supplied to it, in command-line order, and a Count argument that
\* occurred holds the number of its occurrences, those inside a short group
\* counted one by one.
C24_RepeatedFlagsAccumulate ==
    ParsedOk =>
        \A arg \in ParserArgs :
            /\ arg.action = "Append" =>
                  parse.matches.values[arg.name] = SuppliedValues(parse.argv, arg)
            /\ arg.action = "Count" /\ FlagOccurrences(parse.argv, arg) > 0 =>
                  parse.matches.values[arg.name] = <<FlagOccurrences(parse.argv, arg)>>

\* DefaultLexer::lex has read one more line in this step.
DefaultLineRead == lexer = "Default" /\ stat'.lines = stat.lines + 1

\* The offsets at which the delimiter d stands in s.
DelimiterAt(s, d) ==
    {i \in 0..(Len(s) - Len(d)) : SubSeq(s, i + 1, i + Len(d)) = d}

Least(S) == CHOOSE i \in S : \A j \in S : i <= j

BlockOpen == <<"/", "*">>

BlockClose == <<"*", "/">>

\* C25: with the DefaultClassifier, while in_block_comment is set, a non-blank
\* line without the close delimiter is Comment and leaves in_block_comment
\* set; a line holding the close delimiter clears in_block_comment and is
\* Comment when the delimiter ends the trimmed line, else Mixed with the code
\* span from just behind the delimiter to the end of the line.
C25_InsideBlockComment ==
    [][DefaultLineRead /\ ctx.in_block_comment /\ Trim(lastLine') # <<>> =>
        IF DelimiterAt(Trim(lastLine'), BlockClose) = {}
        THEN lastKind'.kind = "Comment" /\ ctx'.in_block_comment
        ELSE /\ ~ctx'.in_block_comment
             /\ IF Least(DelimiterAt(Trim(lastLine'), BlockClose)) + 2 = Len(Trim(lastLine'))
                THEN lastKind'.kind = "Comment"
                ELSE lastKind' =
                        [kind |-> "Mixed",
                         pos |-> <<Least(DelimiterAt(Trim(lastLine'), BlockClose)) + 2,
                                   Len(Trim(lastLine'))>>]]_vars

\* The line */x was read inside a block comment: outside of one it is Code.
C25_Witness ==
    /\ lexer = "Default"
    /\ lastLine = <<"*", "/", "x">>
    /\ lastKind = [kind |-> "Mixed", pos |-> <<2, 3>>]
    /\ ~ctx.in_block_comment

\* The first open delimiter of s has a close delimiter behind it.
OpenThenClose(s) ==
    /\ DelimiterAt(s, BlockOpen) # {}
    /\ \E j \in DelimiterAt(s, BlockClose) : j >= Least(DelimiterAt(s, BlockOpen)) + 2

\* Where the text behind that close delimiter begins.
BehindClose(s) ==
    Least({j \in DelimiterAt(s, BlockClose) : j >= Least(DelimiterAt(s, BlockOpen)) + 2}) + 2

\* C26: with the DefaultClassifier outside a block comment, a line holding
\* the open delimiter and behind it the close delimiter is Comment when it
\* consists of that comment only, else Mixed with the text behind the close
\* delimiter as its code span; in_block_comment stays false.
C26_OpenAndCloseOnOneLine ==
    [][/\ DefaultLineRead
       /\ ~ctx.in_block_comment
       /\ ~StartsWith(Trim(lastLine'), <<"/", "/">>)
       /\ OpenThenClose(Trim(lastLine'))
       =>
       /\ ~ctx'.in_block_comment
       /\ IF /\ Least(DelimiterAt(Trim(lastLine'), BlockOpen)) = 0
             /\ BehindClose(Trim(lastLine')) = Len(Trim(lastLine'))
          THEN lastKind'.kind = "Comment"
          ELSE lastKind' = [kind |-> "Mixed",
                            pos |-> <<BehindClose(Trim(lastLine')), Len(Trim(lastLine'))>>]]_vars

\* The line s, read outside a block comment, opens one.
OpensBlock(s) ==
    /\ s # <<>>
    /\ ~StartsWith(s, <<"/", "/">>)
    /\ DelimiterAt(s, BlockOpen) # {}
    /\ ~OpenThenClose(s)

\* C27: the DefaultClassifier sets in_block_comment exactly when, outside a
\* block comment, a non-blank line not starting with the line-comment prefix
\* holds the open delimiter with no close delimiter behind it; that line is
\* Mixed with code span [0, position of the open delimiter) when text stands
\* before the delimiter, else Comment; a line starting with the line-comment
\* prefix is Comment and does not set in_block_comment.
C27_BlockCommentOpens ==
    [][DefaultLineRead =>
        /\ (~ctx.in_block_comment /\ ctx'.in_block_comment)
           <=> (~ctx.in_block_comment /\ OpensBlock(Trim(lastLine')))
        /\ ~ctx.in_block_comment /\ OpensBlock(Trim(lastLine')) =>
              IF Least(DelimiterAt(Trim(lastLine'), BlockOpen)) > 0
              THEN lastKind' = [kind |-> "Mixed",
                                pos |-> <<0, Least(DelimiterAt(Trim(lastLine'), BlockOpen))>>]
              ELSE lastKind'.kind = "Comment"
        /\ ~ctx.in_block_comment /\ StartsWith(Trim(lastLine'), <<"/", "/">>) =>
              lastKind'.kind = "Comment" /\ ~ctx'.in_block_comment]_vars

\* The line x/* was read outside a block comment.
C27_Witness ==
    /\ lexer = "Default"
    /\ lastLine = <<"x", "/", "*">>
    /\ lastKind = [kind |-> "Mixed", pos |-> <<0, 1>>]
    /\ ctx.in_block_comment
    /\ stat.lines = 1

\* C28: with either classifier a line whose trimmed text is empty is Blank,
\* also inside a block comment or a docstring, and leaves in_block_comment
\* and in_string as they were.
C28_BlankWhateverTheState ==
    [][/\ DefaultLineRead \/ PythonLineRead
       /\ \A i \in DOMAIN lastLine' : lastLine'[i] \in Ws
       =>
       lastKind'.kind = "Blank" /\ ctx' = ctx]_vars

\* A line of one space was read inside a block comment.
C28_Witness ==
    /\ lexer = "Default"
    /\ lastLine = <<" ">>
    /\ lastKind.kind = "Blank"
    /\ ctx.in_block_comment

\* C29: in the brace-depth policy the depth has floor 0: after any sequence of
\* lines FnCtx.depth and FnCtx.prev are >= 0, and prev is the depth reached at
\* the end of the Code or Mixed line scanned last.
C29_DepthHasFloorZero ==
    lexer = "Default" =>
        /\ fn_ctx.depth >= 0
        /\ fn_ctx.prev >= 0
        /\ fn_ctx.prev = fn_ctx.depth

\* Function mode and its base_indent as the next line finds them, a pending
\* signature line taken up.
ModeOf(p) == p.in_fn \/ p.fn_def_line

BaseOf(p) == IF p.fn_def_line THEN p.cur_indent ELSE p.base_indent

\* C30: with the PythonLexer a line classified Blank or Comment, a '#' line
\* or a docstring line, is not credited and leaves function mode, base_indent
\* and the current indent as they are without it.
C30_CommentLinesLeaveIndentation ==
    [][PythonLineRead /\ lastKind'.kind \in {"Blank", "Comment"} =>
        /\ stat'.functions = stat.functions
        /\ ModeOf(py') = ModeOf(py)
        /\ BaseOf(py') = BaseOf(py)
        /\ py'.cur_indent = py.cur_indent]_vars

\* The offsets at which a triple quote of either kind stands in s.
TripleAt(s) == DelimiterAt(s, DQ3) \cup DelimiterAt(s, SQ3)

StartsTriple(s) == Len(s) >= 3 /\ SubSeq(s, 1, 3) \in {DQ3, SQ3}

\* s starts with a triple quote that does not occur again behind it.
OpensDocstring(s) ==
    /\ StartsTriple(s)
    /\ {i \in DelimiterAt(s, SubSeq(s, 1, 3)) : i >= 3} = {}

\* Where the text behind the quote closing a docstring begins: the first
\* double-quoted triple of the line, the first single-quoted one when it has
\* none.
BehindQuote(s) ==
    3 + (IF DelimiterAt(s, DQ3) # {} THEN Least(DelimiterAt(s, DQ3))
         ELSE Least(DelimiterAt(s, SQ3)))

\* C31: the PythonClassifier sets in_string exactly when, outside a docstring,
\* a non-blank line starts with a triple quote that does not occur again on
\* the line; inside a docstring a non-blank line without a triple quote is
\* Comment and leaves in_string set; a line with a triple quote clears
\* in_string and is Mixed with the span behind the closing quote when
\* non-blank text follows it, else Comment; a line that opens and closes a
\* docstring is Comment and leaves in_string false.
C31_DocstringStateMachine ==
    [][PythonLineRead /\ Trim(lastLine') # <<>> =>
        /\ (~ctx.in_string /\ ctx'.in_string)
           <=> (~ctx.in_string /\ OpensDocstring(Trim(lastLine')))
        /\ ctx.in_string /\ TripleAt(Trim(lastLine')) = {} =>
              lastKind'.kind = "Comment" /\ ctx'.in_string
        /\ ctx.in_string /\ TripleAt(Trim(lastLine')) # {} =>
              /\ ~ctx'.in_string
              /\ IF \E i \in (BehindQuote(Trim(lastLine')) + 1)..Len(Trim(lastLine')) :
                        Trim(lastLine')[i] \notin Ws
                 THEN lastKind' = [kind |-> "Mixed",
                                   pos |-> <<BehindQuote(Trim(lastLine')),
                                             Len(Trim(lastLine'))>>]
                 ELSE lastKind'.kind = "Comment"
        /\ /\ ~ctx.in_string
           /\ StartsTriple(Trim(lastLine'))
           /\ ~OpensDocstring(Trim(lastLine'))
           => lastKind'.kind = "Comment" /\ ~ctx'.in_string]_vars

\* The line d"""x was read inside a docstring: outside of one it is Code.
C31_Witness ==
    /\ lexer = "Python"
    /\ lastLine = <<"d", "\"", "\"", "\"", "x">>
    /\ lastKind = [kind |-> "Mixed", pos |-> <<4, 5>>]
    /\ ~ctx.in_string

\* The offsets of the '#' markers of s no backslash stands before.
UnescapedHash(s) == {i \in DelimiterAt(s, <<"#">>) : i = 0 \/ s[i] # "\\"}

\* C32: with the PythonClassifier outside a docstring, a line that does not
\* start with '#' is Mixed with code span from 0 to its first unescaped '#'
\* marker when it has one, and Code when it has none.
C32_InlineCommentAtUnescapedMarker ==
    [][/\ PythonLineRead
       /\ ~ctx.in_string
       /\ Trim(lastLine') # <<>>
       /\ ~StartsWith(Trim(lastLine'), <<"#">>)
       /\ ~StartsTriple(Trim(lastLine'))
       =>
       IF UnescapedHash(Trim(lastLine')) = {}
       THEN lastKind'.kind = "Code"
       ELSE lastKind' = [kind |-> "Mixed",
                         pos |-> <<0, Least(UnescapedHash(Trim(lastLine')))>>]]_vars

\* The per-file tasks spawned and not yet ended.
Unfinished == {t \in DOMAIN tasks : tasks[t].pc # "done"}

\* C33: in async mode a permit is acquired for a path before its per-file
\* task is spawned: the spawned, unfinished per-file tasks are at most the
\* worker count, and the paths in the channel and in such tasks together at
\* most 2 x workers + workers.
C33_SpawnedTasksBoundedByWorkers ==
    pc = "async_run" =>
        /\ Cardinality(Unfinished) <= num_workers
        /\ Len(chan) + Cardinality(Unfinished) <= 2 * num_workers + num_workers

\* C34: for any roots and files and any worker count >= 1, under fair
\* scheduling AsyncFileCounter::process eventually returns Ok: the channel
\* closes when the last producer ends, the consumer drains it and joins the
\* per-file tasks, and the Report is unwrapped; also with no root or no file.
C34_AsyncProcessReturns == <>(pc = "done" /\ async_result.kind = "Ok")

\* process has returned for a configuration without roots.
C34_Witness ==
    /\ pc = "done"
    /\ async_result.kind = "Ok"
    /\ tree = <<>>
    /\ consumer = "done"

\* The per-file tasks that hold a guard of the Report.
Merging == {t \in DOMAIN tasks : tasks[t].pc = "merging"}

\* C35: in async mode every Report.add runs while its task holds the Report
\* mutex: at most one task is between lock() and the end of add, it is the
\* holder of the mutex and the Report it sees is the current one (no other
\* merge overlaps); the Report changes only by the add of the holder and is
\* handed to the caller only when no merge is in progress; so no increment is
\* lost: under every interleaving the totals of the returned Report are the
\* sums over the discovered files that counted successfully.
C35_MergesUnderTheMutex ==
    /\ [](pc = "async_run" =>
            /\ Cardinality(Merging) <= 1
            /\ \A t \in Merging : mutex = t /\ tasks[t].guard = report)
    /\ [][pc = "async_run" /\ report' # report =>
            /\ mutex \in Merging
            /\ mutex' = 0
            /\ report' = ReportAdd(report, CountPath(tasks[mutex].path).stat)]_vars
    /\ [][async_result' # async_result => Merging = {} /\ mutex = 0]_vars
    /\ [](async_result.kind = "Ok" =>
            Totals(async_result.report) = Totals(FoldAdd(ReportNew, OkStats(Discovered))))

\* Two tasks want the mutex at once: one is merging its file while the other,
\* already counted, waits in lock().
C35_Witness ==
    /\ pc = "async_run"
    /\ \E t, u \in DOMAIN tasks :
            /\ tasks[t].pc = "merging"
            /\ tasks[u].pc = "locking"

\* The sum of one counter over a per-file list.
RECURSIVE SumField(_, _)
SumField(stats, field) ==
    IF stats = <<>> THEN 0 ELSE Head(stats)[field] + SumField(Tail(stats), field)

\* A LangStat agrees with its own per-file list.
ListConsistent(lang, ls) ==
    /\ ls.lang = lang
    /\ ls.files = Len(ls.stats)
    /\ \A field \in {"lines", "code", "comments", "blanks", "functions", "classes"} :
            ls[field] = SumField(ls.stats, field)
    /\ \A i \in DOMAIN ls.stats : ls.stats[i].lang = lang

\* C36: after any sequence of Report.add calls, for every language key of the
\* Report: files is the length of its per-file list, each of lines, code,
\* comments, blanks, functions, classes is the sum of that field over the
\* list, every FileStat of the list has that language; and a language is a key
\* iff at least one FileStat of that language was added.
C36_ReportAgreesWithItsLists ==
    statsPc = "adding" =>
        /\ \A l \in DOMAIN whole : ListConsistent(l, whole[l])
        /\ DOMAIN whole = {input[i].lang : i \in processed}
        /\ \A l \in DOMAIN whole :
                Len(whole[l].stats) = Cardinality({i \in processed : input[i].lang = l})

\* Three files added, two of them of one language, one of them with classes.
C36_Witness ==
    /\ statsPc = "adding"
    /\ Cardinality(processed) = 3
    /\ DOMAIN whole = {"Rust", "Javascript"}
    /\ whole["Rust"].files = 2
    /\ whole["Rust"].classes = 2
    /\ whole["Javascript"].classes = 1

\* C37: for a non-binary file of valid UTF-8 content, whatever its size and
\* the size of the read buffer, the sniff leaves the file at offset 0, the
\* bytes the lexer has received are at every moment the bytes of the file up
\* to the offset read so far, and at the end of the stream they are the whole
\* content, so that the lines counted are the lines of the file.
C37_LexerReceivesTheContent ==
    /\ reading.pc = "lexing" =>
            reading.received = Slice(reading.content, 0, reading.offset)
    /\ reading.pc = "eof" =>
            /\ reading.received = reading.content
            /\ LinesCount(reading.received) = LinesCount(reading.content)

\* C38: functions is a count of lines: in every FileStat DefaultLexer or
\* PythonLexer builds, a physical line adds at most 1 to functions, so that
\* functions <= lines after every processed line, also when a signature line
\* lies inside the body of a function that is already open.
C38_FunctionsCountLines ==
    /\ [](lexPc # "idle" /\ lexer # "Md" => stat.functions <= stat.lines)
    /\ [][lexer # "Md" => stat'.functions <= stat.functions + 1]_vars

\* C39: the hidden-path filter of walk_dir applies only to what lies beneath
\* the root: whatever the root is ("." of Config::new included), every
\* readable file beneath it with no dot-prefixed component below the root, not
\* excluded, and of a language config.types enables, is returned.
C39_HiddenFilterSparesTheRoot ==
    walk.pc = "done" =>
        \A i \in DOMAIN walk.entries :
            LET e == walk.entries[i]
                name == e.comps[Len(e.comps)]
            IN (/\ e.ok /\ ~e.is_dir
                /\ \A k \in 2..Len(e.comps) : ~StartsWith(e.comps[k], <<".">>)
                /\ \A excl \in walk.config.exclude_files : ~Excluded(e.comps, excl)
                /\ Extension(name) # None
                /\ LangOfExt(Extension(name)) # "Unknown"
                /\ LangLower(LangOfExt(Extension(name))) \in walk.config.types)
               => WalkReturned(e.comps)

\* C40: the worker count of an AsyncFileCounter is at least 1 when process
\* runs, whatever the Config value and the calls of with_workers that built
\* it: the channel has room for at least 2 paths and the semaphore starts
\* with at least one permit.
C40_WorkersPositiveInProcess ==
    /\ pc \in {"async_start", "async_run", "panicked"} =>
            num_workers >= 1 /\ Capacity(num_workers) >= 2
    /\ pc = "async_run" => permits >= 1
    /\ pc # "panicked"

====
